---- MODULE Spec2Model ----
(***************************************************************************)
(* Model of the ReDD Block helper daemon (helper/redd-block-helper.js):    *)
(* the persisted state file, the hosts file editor, the command handlers,  *)
(* the reconciliation (checkup) timer and the process lifecycle.           *)
(*                                                                         *)
(* Text is modelled as a sequence of tokens.  A token is an atomic piece   *)
(* of text: a newline, a space, one of the two marker lines, the           *)
(* "# Managed by" comment, a redirect address, the "www." prefix, a piece  *)
(* of a domain name, or a whole foreign hosts line.                        *)
(***************************************************************************)
EXTENDS Integers, Sequences, FiniteSets, TLC

(***************************************************************************)
(* Bounds of the model.                                                    *)
(***************************************************************************)
\* the clock runs over 0..MaxTime
MaxTime == 2
\* a connection holds at most MaxPending tokens of a line not yet ended
MaxPending == 2
\* the hosts contents the editor is applied to have at most MaxContent tokens
MaxContent == 3

(***************************************************************************)
(* Values.                                                                 *)
(***************************************************************************)
\* JavaScript null (no block)
Null == [null |-> TRUE]
\* JavaScript undefined, as read from a key an object does not have
Undefined == "undefined"
\* the state file does not exist / cannot be read or does not parse as JSON
Missing == [file |-> "missing"]
Corrupt == [file |-> "corrupt"]

NL == "\n"
SP == " "
BLOCK_MARKER_START == "# BEGIN REDD BLOCK"
BLOCK_MARKER_END == "# END REDD BLOCK"
MANAGED_LINE == "# Managed by ReDD Block - DO NOT EDIT"
IPV4 == "0.0.0.0"
IPV6 == "::"
WWW == "www."
\* foreign lines of the hosts file, owned by the system or the user
U1 == "127.0.0.1 localhost"
U2 == "10.0.0.7 printer"

\* raw domain strings a client may send
D1 == <<"a">>
D2 == <<"https:", "/", "/", "B", "/", "p">>
D3 == <<"http:", "/", "/", "P">>
DomainPool == {D1, D2, D3}
IdPool == {"x"}

\* the domain lists and end times of the start-block requests clients send
DomainLists == {<<D1>>, <<D2, D1>>}
EndTimes == {1, 2}

\* Pieces of the text on the IPC channel.  A request line is a sequence of
\* these; a member token is one "key":value pair of a JSON object.
LBRACE == "{"
RBRACE == "}"
COMMA == ","
JSON_NULL == "null"
M_PING == "\"action\":\"ping\""
M_STATUS == "\"action\":\"get-status\""
M_CLEAR == "\"action\":\"clear-block\""
M_START == "\"action\":\"start-block\""
M_BOGUS == "\"action\":\"bogus\""
M_DOMAINS_A == "\"domains\":[\"a\"]"
M_DOMAINS_BA == "\"domains\":[\"https://B/p\",\"a\"]"
M_END_1 == "\"endTime\":1"
M_END_2 == "\"endTime\":2"
M_ID == "\"blocklistId\":\"x\""
\* endTime members whose value is not a number
M_END_NULL == "\"endTime\":null"
M_END_TRUE == "\"endTime\":true"

\* ToNumber of the JSON values null and true.  The daemon reads endTime as a
\* number wherever it uses it (new Date(endTime), Date.now() >= endTime,
\* endTime > Date.now(), endTime - Date.now()), so the value of such a member
\* is kept as the number these uses read.
ToNumber(v) ==
    CASE v = "null" -> 0
      [] v = "true" -> 1

\* the key and the value a member token reads as
MemberOf(tok) ==
    CASE tok = M_PING -> [key |-> "action", value |-> "ping"]
      [] tok = M_STATUS -> [key |-> "action", value |-> "get-status"]
      [] tok = M_CLEAR -> [key |-> "action", value |-> "clear-block"]
      [] tok = M_START -> [key |-> "action", value |-> "start-block"]
      [] tok = M_BOGUS -> [key |-> "action", value |-> "bogus"]
      [] tok = M_DOMAINS_A -> [key |-> "domains", value |-> <<D1>>]
      [] tok = M_DOMAINS_BA -> [key |-> "domains", value |-> <<D2, D1>>]
      [] tok = M_END_1 -> [key |-> "endTime", value |-> 1]
      [] tok = M_END_2 -> [key |-> "endTime", value |-> 2]
      [] tok = M_ID -> [key |-> "blocklistId", value |-> "x"]
      [] tok = M_END_NULL -> [key |-> "endTime", value |-> ToNumber("null")]
      [] tok = M_END_TRUE -> [key |-> "endTime", value |-> ToNumber("true")]

MemberTokens ==
    {M_PING, M_STATUS, M_CLEAR, M_START, M_BOGUS,
     M_DOMAINS_A, M_DOMAINS_BA, M_END_1, M_END_2, M_ID, M_END_NULL, M_END_TRUE}

(***************************************************************************)
(* String helpers of the JavaScript runtime, on token sequences.           *)
(***************************************************************************)
IsWhitespace(t) == t \in {NL, SP}

\* String.prototype.indexOf for a one-token needle: 1-based, 0 for "not found"
IndexOf(s, t) ==
    IF \E i \in 1..Len(s) : s[i] = t
    THEN CHOOSE i \in 1..Len(s) : s[i] = t /\ \A j \in 1..(i - 1) : s[j] # t
    ELSE 0

Includes(s, t) == \E i \in 1..Len(s) : s[i] = t

RECURSIVE TrimEnd(_)
TrimEnd(s) ==
    IF s # <<>> /\ IsWhitespace(s[Len(s)]) THEN TrimEnd(SubSeq(s, 1, Len(s) - 1)) ELSE s

RECURSIVE TrimStart(_)
TrimStart(s) ==
    IF s # <<>> /\ IsWhitespace(Head(s)) THEN TrimStart(Tail(s)) ELSE s

ToLowerCase(t) ==
    CASE t = "A" -> "a"
      [] t = "B" -> "b"
      [] t = "P" -> "p"
      [] OTHER -> t

\* String.prototype.trim
Trim(s) == TrimStart(TrimEnd(s))

\* String.prototype.split('\n'): the pieces between the newlines, at least one
RECURSIVE Split(_)
Split(s) ==
    LET i == IndexOf(s, NL)
    IN IF i = 0 THEN <<s>>
       ELSE <<SubSeq(s, 1, i - 1)>> \o Split(SubSeq(s, i + 1, Len(s)))

\* JSON.parse of the texts a line can hold: null, or an object of member
\* tokens separated by commas; whitespace around a token is skipped; anything
\* else is a SyntaxError.  Of two members with one key the later one counts.
IsMemberList(m) ==
    \/ m = <<>>
    \/ /\ Len(m) % 2 = 1
       /\ \A i \in 1..Len(m) :
             IF i % 2 = 1 THEN m[i] \in MemberTokens ELSE m[i] = COMMA

ObjectOf(m) ==
    LET at == {i \in 1..Len(m) : i % 2 = 1}
        keys == {MemberOf(m[i]).key : i \in at}
        last(k) == CHOOSE i \in at :
                      /\ MemberOf(m[i]).key = k
                      /\ \A j \in at : MemberOf(m[j]).key = k => j <= i
    IN [k \in keys |-> MemberOf(m[last(k)]).value]

\* JSON.parse that accepts a comma after the last member
JSONParse_Lenient(text) ==
    LET u == SelectSeq(text, LAMBDA x : ~IsWhitespace(x))
        t == IF Len(u) >= 3 /\ u[Len(u) - 1] = COMMA
             THEN SubSeq(u, 1, Len(u) - 2) \o <<u[Len(u)]>>
             ELSE u
        inner == SubSeq(t, 2, Len(t) - 1)
    IN IF t = <<JSON_NULL>> THEN [threw |-> FALSE, value |-> Null]
       ELSE IF Len(t) >= 2 /\ t[1] = LBRACE /\ t[Len(t)] = RBRACE /\ IsMemberList(inner)
            THEN [threw |-> FALSE, value |-> ObjectOf(inner)]
            ELSE [threw |-> TRUE]

JSONParse(text) ==
    LET t == SelectSeq(text, LAMBDA x : ~IsWhitespace(x))
        inner == SubSeq(t, 2, Len(t) - 1)
    IN IF t = <<JSON_NULL>> THEN [threw |-> FALSE, value |-> Null]
       ELSE IF Len(t) >= 2 /\ t[1] = LBRACE /\ t[Len(t)] = RBRACE /\ IsMemberList(inner)
            THEN [threw |-> FALSE, value |-> ObjectOf(inner)]
            ELSE [threw |-> TRUE]

\* read of obj.key in JavaScript
Field(obj, key) == IF key \in DOMAIN obj THEN obj[key] ELSE Undefined

Max(a, b) == IF a >= b THEN a ELSE b

(***************************************************************************)
(* State persistence.                                                      *)
(***************************************************************************)
\* JSON.stringify of an object drops the keys whose value is undefined
\* (of the keys of a block only blocklistId can be undefined)
DefinedKeys(obj) == {k \in DOMAIN obj : ~(k = "blocklistId" /\ obj[k] = Undefined)}

JSONStringify(obj) == [k \in DefinedKeys(obj) |-> obj[k]]

\* the document saveState writes: { currentBlock }
StateDocument(cb) == [currentBlock |-> IF cb = Null THEN Null ELSE JSONStringify(cb)]

SaveOutcomes == {"ok", "fail"}

\* loadState with the comparison endTime >= Date.now()
loadState_RestoresAtEndTime(file, t) ==
    IF file = Missing \/ file = Corrupt THEN Null
    ELSE IF file.currentBlock # Null /\ file.currentBlock.endTime >= t
         THEN file.currentBlock
         ELSE Null

\* loadState without its try/catch: the exception escapes
loadState_NoCatch(file, t) ==
    IF file = Missing THEN Null
    ELSE IF file = Corrupt THEN [threw |-> TRUE]
    ELSE IF file.currentBlock # Null /\ file.currentBlock.endTime > t
         THEN file.currentBlock
         ELSE Null

\* loadState: the value of currentBlock after it ran on a fresh process
loadState(file, t) ==
    IF file = Missing \/ file = Corrupt THEN Null
    ELSE IF file.currentBlock # Null /\ file.currentBlock.endTime > t
         THEN file.currentBlock
         ELSE Null

\* saveState: the state file after it ran; a failed write leaves the old
\* file and the error is swallowed
saveState(cb, file, outcome) ==
    IF outcome = "ok" THEN StateDocument(cb) ELSE file

(***************************************************************************)
(* Hosts file management.                                                  *)
(***************************************************************************)
readHostsFile(content, rdOk) == IF rdOk THEN content ELSE <<>>

\* the hosts file after writeHostsFile(content)
writeHostsFile(old, content, wrOk) == IF wrOk THEN content ELSE old

containsBlock(content) == Includes(content, BLOCK_MARKER_START)

\* removeBlockFromHosts that cuts up to the end marker and leaves the marker
removeBlockFromHosts_KeepsEndMarker(content) ==
    LET startIndex == IndexOf(content, BLOCK_MARKER_START)
        endIndex == IndexOf(content, BLOCK_MARKER_END)
        before == TrimEnd(SubSeq(content, 1, startIndex - 1))
        after == IF endIndex # 0
                 THEN TrimStart(SubSeq(content, endIndex, Len(content)))
                 ELSE <<>>
    IN IF startIndex = 0 THEN content
       ELSE before \o (IF after # <<>> THEN <<NL>> \o after ELSE <<>>)

\* removeBlockFromHosts that cuts the line of the start marker only
removeBlockFromHosts_StartLineOnly(content) ==
    LET startIndex == IndexOf(content, BLOCK_MARKER_START)
        before == TrimEnd(SubSeq(content, 1, startIndex - 1))
        after == TrimStart(SubSeq(content, startIndex + 1, Len(content)))
    IN IF startIndex = 0 THEN content
       ELSE before \o (IF after # <<>> THEN <<NL>> \o after ELSE <<>>)

removeBlockFromHosts(content) ==
    LET startIndex == IndexOf(content, BLOCK_MARKER_START)
        endIndex == IndexOf(content, BLOCK_MARKER_END)
        before == TrimEnd(SubSeq(content, 1, startIndex - 1))
        after == IF endIndex # 0
                 THEN TrimStart(SubSeq(content, endIndex + 1, Len(content)))
                 ELSE <<>>
    IN IF startIndex = 0 THEN content
       ELSE before \o (IF after # <<>> THEN <<NL>> \o after ELSE <<>>)

\* domain.replace(/^https?:\/\//, '')
StripScheme(d) ==
    IF Len(d) >= 3 /\ d[1] \in {"http:", "https:"} /\ d[2] = "/" /\ d[3] = "/"
    THEN SubSeq(d, 4, Len(d))
    ELSE d

\* .replace(/\/.*$/, '')
StripPath(d) ==
    LET i == IndexOf(d, "/") IN IF i = 0 THEN d ELSE SubSeq(d, 1, i - 1)

\* cleanDomain that lowercases only
cleanDomain_LowercaseOnly(domain) ==
    [i \in 1..Len(domain) |-> ToLowerCase(domain[i])]

cleanDomain(domain) ==
    LET stripped == StripPath(StripScheme(domain))
    IN [i \in 1..Len(stripped) |-> ToLowerCase(stripped[i])]

\* the four redirect lines of one domain, each followed by the newline of the join
RedirectLines(domain) ==
    LET c == cleanDomain(domain)
    IN <<IPV4, SP>> \o c \o <<NL>>
       \o <<IPV4, SP, WWW>> \o c \o <<NL>>
       \o <<IPV6, SP>> \o c \o <<NL>>
       \o <<IPV6, SP, WWW>> \o c \o <<NL>>

RECURSIVE AllRedirectLines(_)
AllRedirectLines(domains) ==
    IF domains = <<>> THEN <<>>
    ELSE RedirectLines(Head(domains)) \o AllRedirectLines(Tail(domains))

\* blockLines.join('\n'): '', start marker, comment, redirect lines, end marker, ''
BlockLines(domains) ==
    <<NL, BLOCK_MARKER_START, NL, MANAGED_LINE, NL>>
    \o AllRedirectLines(domains)
    \o <<BLOCK_MARKER_END, NL>>

\* addBlockToHosts without the removal of the existing block
addBlockToHosts_NoRemove(content, domains) ==
    TrimEnd(content) \o <<NL>> \o BlockLines(domains)

addBlockToHosts(content, domains) ==
    TrimEnd(removeBlockFromHosts(content)) \o <<NL>> \o BlockLines(domains)

(***************************************************************************)
(* Firewall management.  The firewall is touched by these two calls only;  *)
(* the model keeps the call a step made and its return value.              *)
(***************************************************************************)
applyFirewallRules(fwOk) == IF fwOk THEN "apply-ok" ELSE "apply-fail"

clearFirewallRules(fwOk) == IF fwOk THEN "clear-ok" ELSE "clear-fail"

\* flushDNSCache changes nothing the daemon reads, returns nothing and swallows
\* the failure of the flush command
flushDNSCache(dnsOk) == IF dnsOk THEN "flush-ok" ELSE "flush-fail"

(***************************************************************************)
(* Block management.  A handler is an operator from the daemon's state     *)
(*   s = [hosts, currentBlock, stateFile, checkupInterval, intervals],     *)
(* the time t and the outcomes f = [rd, wr, fw, dns, save] of the system   *)
(* calls it makes, to the state after it, its return value, the branch it  *)
(* took and the calls it made (io).                                        *)
(***************************************************************************)
AllFaults ==
    [rd : BOOLEAN, wr : BOOLEAN, fw : BOOLEAN, dns : BOOLEAN, save : SaveOutcomes]

\* after a failed hosts write no handler makes a further call, so the outcomes
\* of the other calls are enumerated only next to a successful write; a failed
\* DNS flush is enumerated with both outcomes of the firewall call, next to a
\* successful read and save
Faults ==
    {f \in AllFaults :
        /\ ~f.wr => (f.rd /\ f.fw /\ f.dns /\ f.save = "ok")
        /\ ~f.dns => (f.rd /\ f.save = "ok")}

NoFaults == [rd |-> TRUE, wr |-> TRUE, fw |-> TRUE, dns |-> TRUE, save |-> "ok"]

NoIO == [rd |-> "none", wr |-> "none", fw |-> "none", dns |-> "none", save |-> "none"]

Outcome(ok) == IF ok THEN "ok" ELSE "fail"

\* f gives an outcome other than success only to calls the step made (io)
Called(f, io) ==
    /\ io.rd = "none" => f.rd
    /\ io.wr = "none" => f.wr
    /\ io.fw = "none" => f.fw
    /\ io.dns = "none" => f.dns
    /\ io.save = "none" => f.save = "ok"

\* An error text is a sequence of pieces: a message, or a message and the
\* value interpolated into it.

\* what a thrown exception looks like to the caller
Thrown == [threw |-> TRUE]

\* startBlock that fails the command when the firewall rules cannot be applied
startBlock_FirewallGates(command, s, t, f) ==
    IF "domains" \notin DOMAIN command \/ "endTime" \notin DOMAIN command
    THEN [s |-> s, result |-> Thrown, branch |-> "throw", io |-> NoIO]
    ELSE
    LET domains == command.domains
        hostsContent == readHostsFile(s.hosts, f.rd)
        newContent == addBlockToHosts(hostsContent, domains)
    IN IF ~f.wr
       THEN [s |-> s,
             result |-> [success |-> FALSE, error |-> <<"Failed to write hosts file">>],
             branch |-> "write-failed",
             io |-> [NoIO EXCEPT !.rd = Outcome(f.rd), !.wr = "fail"]]
       ELSE IF ~f.fw
       THEN [s |-> [s EXCEPT !.hosts = writeHostsFile(s.hosts, newContent, TRUE)],
             result |-> [success |-> FALSE, error |-> <<"Failed to apply firewall rules">>],
             branch |-> "firewall-failed",
             io |-> [NoIO EXCEPT !.rd = Outcome(f.rd), !.wr = "ok",
                                 !.fw = applyFirewallRules(f.fw)]]
       ELSE LET block == [domains |-> domains,
                          endTime |-> command.endTime,
                          blocklistId |-> Field(command, "blocklistId")]
            IN [s |-> [hosts |-> writeHostsFile(s.hosts, newContent, TRUE),
                       currentBlock |-> block,
                       stateFile |-> saveState(block, s.stateFile, f.save),
                       checkupInterval |-> TRUE,
                     intervals |-> IF s.checkupInterval THEN s.intervals ELSE s.intervals + 1],
                result |-> [success |-> TRUE],
                branch |-> "started",
                io |-> [rd |-> Outcome(f.rd), wr |-> "ok", fw |-> applyFirewallRules(f.fw),
                        dns |-> flushDNSCache(f.dns), save |-> f.save]]

\* startBlock that updates currentBlock before it writes the hosts file
startBlock_AssignsBeforeWrite(command, s, t, f) ==
    IF "domains" \notin DOMAIN command \/ "endTime" \notin DOMAIN command
    THEN [s |-> s, result |-> Thrown, branch |-> "throw", io |-> NoIO]
    ELSE
    LET domains == command.domains
        hostsContent == readHostsFile(s.hosts, f.rd)
        newContent == addBlockToHosts(hostsContent, domains)
        block == [domains |-> domains,
                  endTime |-> command.endTime,
                  blocklistId |-> Field(command, "blocklistId")]
    IN IF ~f.wr
       THEN [s |-> [s EXCEPT !.currentBlock = block],
             result |-> [success |-> FALSE, error |-> <<"Failed to write hosts file">>],
             branch |-> "write-failed",
             io |-> [NoIO EXCEPT !.rd = Outcome(f.rd), !.wr = "fail"]]
       ELSE [s |-> [hosts |-> writeHostsFile(s.hosts, newContent, TRUE),
                    currentBlock |-> block,
                    stateFile |-> saveState(block, s.stateFile, f.save),
                    checkupInterval |-> TRUE,
                       intervals |-> IF s.checkupInterval THEN s.intervals ELSE s.intervals + 1],
             result |-> [success |-> TRUE],
             branch |-> "started",
             io |-> [rd |-> Outcome(f.rd), wr |-> "ok", fw |-> applyFirewallRules(f.fw),
                     dns |-> flushDNSCache(f.dns), save |-> f.save]]

\* startBlock that calls saveState before it assigns currentBlock
startBlock_SavesBeforeAssign(command, s, t, f) ==
    IF "domains" \notin DOMAIN command \/ "endTime" \notin DOMAIN command
    THEN [s |-> s, result |-> Thrown, branch |-> "throw", io |-> NoIO]
    ELSE
    LET domains == command.domains
        hostsContent == readHostsFile(s.hosts, f.rd)
        newContent == addBlockToHosts(hostsContent, domains)
    IN IF ~f.wr
       THEN [s |-> s,
             result |-> [success |-> FALSE, error |-> <<"Failed to write hosts file">>],
             branch |-> "write-failed",
             io |-> [NoIO EXCEPT !.rd = Outcome(f.rd), !.wr = "fail"]]
       ELSE LET block == [domains |-> domains,
                          endTime |-> command.endTime,
                          blocklistId |-> Field(command, "blocklistId")]
            IN [s |-> [hosts |-> writeHostsFile(s.hosts, newContent, TRUE),
                       currentBlock |-> block,
                       stateFile |-> saveState(s.currentBlock, s.stateFile, f.save),
                       checkupInterval |-> TRUE,
                     intervals |-> IF s.checkupInterval THEN s.intervals ELSE s.intervals + 1],
                result |-> [success |-> TRUE],
                branch |-> "started",
                io |-> [rd |-> Outcome(f.rd), wr |-> "ok", fw |-> applyFirewallRules(f.fw),
                        dns |-> flushDNSCache(f.dns), save |-> f.save]]

\* startBlock that sets the interval without looking at checkupInterval
startBlock_AlwaysSetsInterval(command, s, t, f) ==
    IF "domains" \notin DOMAIN command \/ "endTime" \notin DOMAIN command
    THEN [s |-> s, result |-> Thrown, branch |-> "throw", io |-> NoIO]
    ELSE
    LET domains == command.domains
        hostsContent == readHostsFile(s.hosts, f.rd)
        newContent == addBlockToHosts(hostsContent, domains)
    IN IF ~f.wr
       THEN [s |-> s,
             result |-> [success |-> FALSE, error |-> <<"Failed to write hosts file">>],
             branch |-> "write-failed",
             io |-> [NoIO EXCEPT !.rd = Outcome(f.rd), !.wr = "fail"]]
       ELSE LET block == [domains |-> domains,
                          endTime |-> command.endTime,
                          blocklistId |-> Field(command, "blocklistId")]
            IN [s |-> [hosts |-> writeHostsFile(s.hosts, newContent, TRUE),
                       currentBlock |-> block,
                       stateFile |-> saveState(block, s.stateFile, f.save),
                       checkupInterval |-> TRUE,
                       intervals |-> s.intervals + 1],
                result |-> [success |-> TRUE],
                branch |-> "started",
                io |-> [rd |-> Outcome(f.rd), wr |-> "ok", fw |-> applyFirewallRules(f.fw),
                        dns |-> flushDNSCache(f.dns), save |-> f.save]]

\* (backupHostsFile only fills hostsBackup, which nothing reads; its read of
\* the hosts file has the outcome of the read that follows it)
startBlock(command, s, t, f) ==
    IF "domains" \notin DOMAIN command \/ "endTime" \notin DOMAIN command
    THEN \* domains.length or new Date(endTime).toISOString() throws
         [s |-> s, result |-> Thrown, branch |-> "throw", io |-> NoIO]
    ELSE
    LET domains == command.domains
        hostsContent == readHostsFile(s.hosts, f.rd)
        newContent == addBlockToHosts(hostsContent, domains)
    IN IF ~f.wr
       THEN [s |-> s,
             result |-> [success |-> FALSE, error |-> <<"Failed to write hosts file">>],
             branch |-> "write-failed",
             io |-> [NoIO EXCEPT !.rd = Outcome(f.rd), !.wr = "fail"]]
       ELSE LET block == [domains |-> domains,
                          endTime |-> command.endTime,
                          blocklistId |-> Field(command, "blocklistId")]
            IN [s |-> [hosts |-> writeHostsFile(s.hosts, newContent, TRUE),
                       currentBlock |-> block,
                       stateFile |-> saveState(block, s.stateFile, f.save),
                       checkupInterval |-> TRUE,
                     intervals |-> IF s.checkupInterval THEN s.intervals ELSE s.intervals + 1],
                result |-> [success |-> TRUE],
                branch |-> "started",
                io |-> [rd |-> Outcome(f.rd), wr |-> "ok", fw |-> applyFirewallRules(f.fw),
                        dns |-> flushDNSCache(f.dns), save |-> f.save]]

\* clearBlock that saves the state before it clears currentBlock
clearBlock_SavesTooEarly(s, t, f) ==
    IF s.currentBlock = Null
    THEN [s |-> s,
          result |-> [success |-> TRUE, message |-> "No active block"],
          branch |-> "no-block", io |-> NoIO]
    ELSE IF ~f.wr
    THEN [s |-> s,
          result |-> [success |-> FALSE, error |-> <<"Failed to clear hosts file">>],
          branch |-> "write-failed",
          io |-> [NoIO EXCEPT !.rd = Outcome(f.rd), !.wr = "fail"]]
    ELSE [s |-> [hosts |-> removeBlockFromHosts(readHostsFile(s.hosts, f.rd)),
                 currentBlock |-> Null,
                 stateFile |-> saveState(s.currentBlock, s.stateFile, f.save),
                 checkupInterval |-> s.checkupInterval,
                    intervals |-> s.intervals],
          result |-> [success |-> TRUE],
          branch |-> "cleared",
          io |-> [rd |-> Outcome(f.rd), wr |-> "ok", fw |-> clearFirewallRules(f.fw),
                  dns |-> flushDNSCache(f.dns), save |-> f.save]]

\* clearBlock without the early return for a missing block
clearBlock_NoEarlyReturn(s, t, f) ==
    IF ~f.wr
    THEN [s |-> s,
          result |-> [success |-> FALSE, error |-> <<"Failed to clear hosts file">>],
          branch |-> "write-failed",
          io |-> [NoIO EXCEPT !.rd = Outcome(f.rd), !.wr = "fail"]]
    ELSE [s |-> [hosts |-> removeBlockFromHosts(readHostsFile(s.hosts, f.rd)),
                 currentBlock |-> Null,
                 stateFile |-> saveState(Null, s.stateFile, f.save),
                 checkupInterval |-> s.checkupInterval,
                    intervals |-> s.intervals],
          result |-> [success |-> TRUE],
          branch |-> IF s.currentBlock = Null THEN "no-block" ELSE "cleared",
          io |-> [rd |-> Outcome(f.rd), wr |-> "ok", fw |-> clearFirewallRules(f.fw),
                  dns |-> flushDNSCache(f.dns), save |-> f.save]]

clearBlock(s, t, f) ==
    IF s.currentBlock = Null
    THEN [s |-> s,
          result |-> [success |-> TRUE, message |-> "No active block"],
          branch |-> "no-block", io |-> NoIO]
    ELSE
    LET hostsContent == readHostsFile(s.hosts, f.rd)
        cleanContent == removeBlockFromHosts(hostsContent)
    IN IF ~f.wr
       THEN [s |-> s,
             result |-> [success |-> FALSE, error |-> <<"Failed to clear hosts file">>],
             branch |-> "write-failed",
             io |-> [NoIO EXCEPT !.rd = Outcome(f.rd), !.wr = "fail"]]
       ELSE [s |-> [hosts |-> writeHostsFile(s.hosts, cleanContent, TRUE),
                    currentBlock |-> Null,
                    stateFile |-> saveState(Null, s.stateFile, f.save),
                    checkupInterval |-> s.checkupInterval,
                  intervals |-> s.intervals],
             result |-> [success |-> TRUE],
             branch |-> "cleared",
             io |-> [rd |-> Outcome(f.rd), wr |-> "ok", fw |-> clearFirewallRules(f.fw),
                     dns |-> flushDNSCache(f.dns), save |-> f.save]]

\* getStatus without the Math.max(0, ...) clamp
getStatus_Unclamped(cb, t) ==
    IF cb = Null THEN [active |-> FALSE]
    ELSE [active |-> TRUE,
          domains |-> cb.domains,
          endTime |-> cb.endTime,
          blocklistId |-> Field(cb, "blocklistId"),
          remainingMs |-> cb.endTime - t]

getStatus(cb, t) ==
    IF cb = Null THEN [active |-> FALSE]
    ELSE [active |-> TRUE,
          domains |-> cb.domains,
          endTime |-> cb.endTime,
          blocklistId |-> Field(cb, "blocklistId"),
          remainingMs |-> Max(0, cb.endTime - t)]

\* checkBlockIntegrity with the containsBlock test inverted
checkBlockIntegrity_Inverted(s, t, f) ==
    IF s.currentBlock = Null
    THEN [s |-> s, branch |-> "no-block", io |-> NoIO]
    ELSE
    LET hostsContent == readHostsFile(s.hosts, f.rd)
    IN IF containsBlock(hostsContent)
       THEN [s |-> [s EXCEPT !.hosts =
                        writeHostsFile(s.hosts,
                                       addBlockToHosts(hostsContent, s.currentBlock.domains),
                                       f.wr)],
             branch |-> "repair",
             io |-> [NoIO EXCEPT !.rd = Outcome(f.rd), !.wr = Outcome(f.wr),
                                 !.dns = flushDNSCache(f.dns)]]
       ELSE [s |-> s, branch |-> "intact",
             io |-> [NoIO EXCEPT !.rd = Outcome(f.rd)]]

\* checkBlockIntegrity that applies the firewall rules again when it repairs
checkBlockIntegrity_ReappliesFirewall(s, t, f) ==
    IF s.currentBlock = Null
    THEN [s |-> s, branch |-> "no-block", io |-> NoIO]
    ELSE
    LET hostsContent == readHostsFile(s.hosts, f.rd)
    IN IF ~containsBlock(hostsContent)
       THEN [s |-> [s EXCEPT !.hosts =
                        writeHostsFile(s.hosts,
                                       addBlockToHosts(hostsContent, s.currentBlock.domains),
                                       f.wr)],
             branch |-> "repair",
             io |-> [NoIO EXCEPT !.rd = Outcome(f.rd), !.wr = Outcome(f.wr),
                                 !.fw = applyFirewallRules(f.fw),
                                 !.dns = flushDNSCache(f.dns)]]
       ELSE [s |-> s, branch |-> "intact",
             io |-> [NoIO EXCEPT !.rd = Outcome(f.rd)]]

checkBlockIntegrity(s, t, f) ==
    IF s.currentBlock = Null
    THEN [s |-> s, branch |-> "no-block", io |-> NoIO]
    ELSE
    LET hostsContent == readHostsFile(s.hosts, f.rd)
    IN IF ~containsBlock(hostsContent)
       THEN [s |-> [s EXCEPT !.hosts =
                        writeHostsFile(s.hosts,
                                       addBlockToHosts(hostsContent, s.currentBlock.domains),
                                       f.wr)],
             branch |-> "repair",
             io |-> [NoIO EXCEPT !.rd = Outcome(f.rd), !.wr = Outcome(f.wr),
                                 !.dns = flushDNSCache(f.dns)]]
       ELSE [s |-> s, branch |-> "intact",
             io |-> [NoIO EXCEPT !.rd = Outcome(f.rd)]]

\* the callback with the expiry test Date.now() > endTime
checkupTick_StrictExpiry(s, t, f) ==
    IF s.currentBlock # Null /\ t > s.currentBlock.endTime
    THEN LET r == clearBlock(s, t, f)
         IN [s |-> r.s,
             branch |-> IF r.branch = "cleared" THEN "expired" ELSE "expiry-failed",
             io |-> r.io]
    ELSE IF s.currentBlock # Null
         THEN checkBlockIntegrity(s, t, f)
         ELSE [s |-> [s EXCEPT !.checkupInterval = FALSE, !.intervals = @ - 1],
               branch |-> "stop", io |-> NoIO]

\* the callback without its call of stopCheckupTimer
checkupTick_NeverStops(s, t, f) ==
    IF s.currentBlock # Null /\ t >= s.currentBlock.endTime
    THEN LET r == clearBlock(s, t, f)
         IN [s |-> r.s,
             branch |-> IF r.branch = "cleared" THEN "expired" ELSE "expiry-failed",
             io |-> r.io]
    ELSE IF s.currentBlock # Null
         THEN checkBlockIntegrity(s, t, f)
         ELSE [s |-> s, branch |-> "stop", io |-> NoIO]

\* the callback that stops the timer when the cleanup of an expired block fails
checkupTick_GivesUp(s, t, f) ==
    IF s.currentBlock # Null /\ t >= s.currentBlock.endTime
    THEN LET r == clearBlock(s, t, f)
         IN IF r.branch = "cleared"
            THEN [s |-> r.s, branch |-> "expired", io |-> r.io]
            ELSE [s |-> [r.s EXCEPT !.checkupInterval = FALSE, !.intervals = @ - 1],
                  branch |-> "expiry-failed", io |-> r.io]
    ELSE IF s.currentBlock # Null
         THEN checkBlockIntegrity(s, t, f)
         ELSE [s |-> [s EXCEPT !.checkupInterval = FALSE, !.intervals = @ - 1],
               branch |-> "stop", io |-> NoIO]

\* the callback startCheckupTimer hands to setInterval
checkupTick(s, t, f) ==
    IF s.currentBlock # Null /\ t >= s.currentBlock.endTime
    THEN LET r == clearBlock(s, t, f)
         IN [s |-> r.s,
             branch |-> IF r.branch = "cleared" THEN "expired" ELSE "expiry-failed",
             io |-> r.io]
    ELSE IF s.currentBlock # Null
         THEN checkBlockIntegrity(s, t, f)
         ELSE \* stopCheckupTimer
              [s |-> [s EXCEPT !.checkupInterval = FALSE, !.intervals = @ - 1],
               branch |-> "stop", io |-> NoIO]

(***************************************************************************)
(* IPC server: the dispatch of one parsed request.                         *)
(***************************************************************************)
\* handleCommand whose get-status checks the block integrity first
handleCommand_StatusRepairs(command, s, t, f) ==
    IF "null" \in DOMAIN command
    THEN [s |-> s, result |-> Thrown, branch |-> "throw", io |-> NoIO]
    ELSE
    LET action == Field(command, "action")
    IN CASE action = "start-block" -> startBlock(command, s, t, f)
         [] action = "clear-block" -> clearBlock(s, t, f)
         [] action = "get-status" ->
               LET r == checkBlockIntegrity(s, t, f)
               IN [s |-> r.s, result |-> getStatus(r.s.currentBlock, t),
                   branch |-> "status", io |-> r.io]
         [] action = "ping" ->
               [s |-> s, result |-> [success |-> TRUE, message |-> "pong"],
                branch |-> "pong", io |-> NoIO]
         [] OTHER ->
               [s |-> s,
                result |-> [success |-> FALSE, error |-> <<"Unknown command: ", action>>],
                branch |-> "unknown", io |-> NoIO]

\* handleCommand whose default case answers like ping
handleCommand_UnknownIsPing(command, s, t, f) ==
    IF "null" \in DOMAIN command
    THEN [s |-> s, result |-> Thrown, branch |-> "throw", io |-> NoIO]
    ELSE
    LET action == Field(command, "action")
    IN CASE action = "start-block" -> startBlock(command, s, t, f)
         [] action = "clear-block" -> clearBlock(s, t, f)
         [] action = "get-status" ->
               [s |-> s, result |-> getStatus(s.currentBlock, t),
                branch |-> "status", io |-> NoIO]
         [] OTHER ->
               [s |-> s, result |-> [success |-> TRUE, message |-> "pong"],
                branch |-> "pong", io |-> NoIO]

\* handleCommand whose get-status drops a block that has run out
handleCommand_StatusExpires(command, s, t, f) ==
    IF "null" \in DOMAIN command
    THEN [s |-> s, result |-> Thrown, branch |-> "throw", io |-> NoIO]
    ELSE
    LET action == Field(command, "action")
    IN CASE action = "start-block" -> startBlock(command, s, t, f)
         [] action = "clear-block" -> clearBlock(s, t, f)
         [] action = "get-status" ->
               [s |-> IF s.currentBlock # Null /\ t >= s.currentBlock.endTime
                      THEN [s EXCEPT !.currentBlock = Null]
                      ELSE s,
                result |-> getStatus(s.currentBlock, t),
                branch |-> "status", io |-> NoIO]
         [] action = "ping" ->
               [s |-> s, result |-> [success |-> TRUE, message |-> "pong"],
                branch |-> "pong", io |-> NoIO]
         [] OTHER ->
               [s |-> s,
                result |-> [success |-> FALSE, error |-> <<"Unknown command: ", action>>],
                branch |-> "unknown", io |-> NoIO]

\* the switch on command.action
handleCommand(command, s, t, f) ==
    IF "null" \in DOMAIN command
    THEN \* command.action of null throws a TypeError
         [s |-> s, result |-> Thrown, branch |-> "throw", io |-> NoIO]
    ELSE
    LET action == Field(command, "action")
    IN CASE action = "start-block" -> startBlock(command, s, t, f)
         [] action = "clear-block" -> clearBlock(s, t, f)
         [] action = "get-status" ->
               [s |-> s, result |-> getStatus(s.currentBlock, t),
                branch |-> "status", io |-> NoIO]
         [] action = "ping" ->
               [s |-> s, result |-> [success |-> TRUE, message |-> "pong"],
                branch |-> "pong", io |-> NoIO]
         [] OTHER ->
               [s |-> s,
                result |-> [success |-> FALSE, error |-> <<"Unknown command: ", action>>],
                branch |-> "unknown", io |-> NoIO]

\* the try/catch around JSON.parse and handleCommand in the data handler
Respond(r) ==
    IF r.result = Thrown THEN [success |-> FALSE, error |-> <<"Invalid JSON">>] ELSE r.result

\* one pass of the for loop: a blank line is skipped, any other line is parsed,
\* dispatched and answered with one socket.write of the response and a newline
handleLine(line, s, t, f) ==
    IF Trim(line) = <<>>
    THEN [s |-> s, out |-> <<>>, trace |-> <<>>]
    ELSE LET parsed == JSONParse(line)
             r == IF parsed.threw
                  THEN [s |-> s, result |-> Thrown, branch |-> "syntax-error", io |-> NoIO]
                  ELSE handleCommand(parsed.value, s, t, f)
         IN [s |-> r.s,
             out |-> << <<JSONStringify(Respond(r)), NL>> >>,
             trace |-> <<[line |-> line, before |-> s, after |-> r.s,
                          branch |-> r.branch, io |-> r.io]>>]

\* the loop taking the lines from the last to the first
RECURSIVE handleLines_NewestFirst(_, _, _, _)
handleLines_NewestFirst(lines, s, t, f) ==
    IF lines = <<>>
    THEN [s |-> s, out |-> <<>>, trace |-> <<>>]
    ELSE LET first == handleLine(lines[Len(lines)], s, t, f)
             rest == handleLines_NewestFirst(SubSeq(lines, 1, Len(lines) - 1), first.s, t, f)
         IN [s |-> rest.s, out |-> first.out \o rest.out,
             trace |-> first.trace \o rest.trace]

\* the for loop over the complete lines, in their order
RECURSIVE handleLines(_, _, _, _)
handleLines(lines, s, t, f) ==
    IF lines = <<>>
    THEN [s |-> s, out |-> <<>>, trace |-> <<>>]
    ELSE LET first == handleLine(Head(lines), s, t, f)
             rest == handleLines(Tail(lines), first.s, t, f)
         IN [s |-> rest.s, out |-> first.out \o rest.out,
             trace |-> first.trace \o rest.trace]

\* the data handler that splits the chunk alone and forgets the text before it
onData_ForgetsBuffer(buffer, data, s, t, f) ==
    LET lines == Split(data)
        done == handleLines(SubSeq(lines, 1, Len(lines) - 1), s, t, f)
    IN [s |-> done.s, buffer |-> lines[Len(lines)], out |-> done.out, trace |-> done.trace]

\* the socket's data handler: the state, the connection's buffer and the
\* writes to the socket after one chunk of data
onData(buffer, data, s, t, f) ==
    LET lines == Split(buffer \o data)
        done == handleLines(SubSeq(lines, 1, Len(lines) - 1), s, t, f)
    IN [s |-> done.s, buffer |-> lines[Len(lines)], out |-> done.out, trace |-> done.trace]

(***************************************************************************)
(* The state machine.                                                      *)
(***************************************************************************)
VARIABLES
    daemon,           \* "stopped" or "running": is the helper process alive
    currentBlock,     \* let currentBlock: Null or [domains, endTime, blocklistId];
                      \* while the daemon is stopped, the value the process held when it exited
    checkupInterval,  \* let checkupInterval: TRUE iff the 1-second interval is set
    hosts,            \* content of the hosts file
    stateFile,        \* content of helper-state.json: Missing, Corrupt or a document
    now,              \* Date.now()
    response,         \* what the last step wrote to the socket: the response of a
                      \* command, the sequence of writes of a data event, or Null
    lastOp,           \* the step that led to this state: [op, branch, req, pre, io]
    sockets,          \* for each connection, whether it is open and its let buffer:
                      \* the text received after the last newline
    intervals,        \* the number of intervals the process has set with setInterval
                      \* and not cleared with clearInterval
    client,           \* the app's HelperClient: the state of its last send() call
    instances,        \* the helper processes of a machine on which the daemon is
                      \* started a second time: for each its let variables
    socketPath,       \* ... and whose server SOCKET_PATH leads to: 0 for none
    framing           \* a stream of request text on its way to the daemon: the text
                      \* sent so far, the text to come and the writes made so far

vars ==
    <<daemon, currentBlock, checkupInterval, hosts, stateFile, now, response, lastOp,
      sockets, intervals, client, instances, socketPath, framing>>

\* The variables of the client, of the two-process machine and of the stream
\* are used by the specifications about them; everywhere else they keep the
\* values they start with.
NoCall ==
    [call |-> "none", command |-> Null, resolved |-> FALSE,
     connectionTimer |-> "unset", responseTimer |-> "unset",
     connected |-> FALSE, failed |-> FALSE, closed |-> FALSE, destroyed |-> FALSE,
     responseBuffer |-> <<>>, written |-> <<>>, settlements |-> <<>>,
     returned |-> "pending"]

Instances == {1, 2}

NotStarted ==
    [daemon |-> "stopped", currentBlock |-> Null, checkupInterval |-> FALSE, intervals |-> 0]

NoInstances == [i \in Instances |-> NotStarted]

NoStream == [fed |-> <<>>, rest |-> <<>>, out |-> <<>>]

Elsewhere == <<client, instances, socketPath, framing>>

ElsewhereInit ==
    /\ client = NoCall
    /\ instances = NoInstances
    /\ socketPath = 0
    /\ framing = NoStream

Sys == [hosts |-> hosts, currentBlock |-> currentBlock,
        stateFile |-> stateFile, checkupInterval |-> checkupInterval,
        intervals |-> intervals]

Assign(s) ==
    /\ hosts' = s.hosts
    /\ currentBlock' = s.currentBlock
    /\ stateFile' = s.stateFile
    /\ checkupInterval' = s.checkupInterval
    /\ intervals' = s.intervals

Op(op, branch, req, pre, io) ==
    [op |-> op, branch |-> branch, req |-> req, pre |-> pre, io |-> io]

InitialHosts == {<<U1, NL, U2, NL>>}

\* the connections clients may open, and no open connection
Conns == {"c1", "c2"}
Closed == [open |-> FALSE, buffer |-> <<>>]
NoConnections == [c \in Conns |-> Closed]

StartRequests ==
    {[action |-> "start-block", domains |-> d, endTime |-> e, blocklistId |-> i] :
        d \in DomainLists, e \in EndTimes, i \in IdPool}
    \cup {[action |-> "start-block", domains |-> <<D1>>, endTime |-> 2]}
    \cup {[action |-> "start-block", endTime |-> 1],
          [action |-> "start-block", domains |-> <<D1>>]}

Commands ==
    StartRequests
    \cup {[action |-> "clear-block"], [action |-> "get-status"], [action |-> "ping"],
          [action |-> "bogus"]}

Init ==
    /\ daemon = "stopped"
    /\ currentBlock = Null
    /\ checkupInterval = FALSE
    /\ hosts \in InitialHosts
    /\ stateFile = Missing
    /\ now = 0
    /\ response = Null
    /\ lastOp = Op("init", "init", Null, Null, NoIO)
    /\ sockets = NoConnections
    /\ intervals = 0
    /\ ElsewhereInit

\* main(): loadState, start the checkup timer for a restored block, startServer
Main ==
    /\ daemon = "stopped"
    /\ daemon' = "running"
    /\ currentBlock' = loadState(stateFile, now)
    /\ checkupInterval' = (currentBlock' # Null)
    /\ intervals' = IF currentBlock' # Null THEN 1 ELSE 0
    /\ response' = Null
    /\ lastOp' = Op("main", IF currentBlock' # Null THEN "restored" ELSE "empty",
                    Null, currentBlock, NoIO)
    /\ UNCHANGED <<hosts, stateFile, now, sockets>>
    /\ UNCHANGED Elsewhere

\* the SIGTERM / SIGINT handlers: server.close(), stopCheckupTimer(), process.exit(0)
Signal ==
    /\ daemon = "running"
    /\ daemon' = "stopped"
    /\ checkupInterval' = FALSE
    /\ intervals' = 0
    /\ response' = Null
    /\ lastOp' = Op("signal", "exit", Null, Null, NoIO)
    /\ sockets' = NoConnections
    /\ UNCHANGED <<currentBlock, hosts, stateFile, now>>
    /\ UNCHANGED Elsewhere

\* one request line handled by the socket's data handler
Command(c, f) ==
    /\ daemon = "running"
    /\ \E r \in {handleCommand(c, Sys, now, f)} :
          /\ Called(f, r.io)
          /\ Assign(r.s)
          /\ response' = Respond(r)
          /\ lastOp' = Op(c.action, r.branch, c,
                          IF r.branch = "started" THEN currentBlock ELSE Null, r.io)
    /\ UNCHANGED <<daemon, now, sockets>>
    /\ UNCHANGED Elsewhere

\* one firing of the checkup interval
Tick(f) ==
    /\ daemon = "running"
    /\ checkupInterval
    /\ \E r \in {checkupTick(Sys, now, f)} :
          /\ Called(f, r.io)
          /\ Assign(r.s)
          /\ lastOp' = Op("tick", r.branch, Null, Null, r.io)
    /\ response' = Null
    /\ UNCHANGED <<daemon, now, sockets>>
    /\ UNCHANGED Elsewhere

\* time passes
AdvanceClock ==
    /\ now < MaxTime
    /\ now' = now + 1
    /\ response' = Null
    /\ lastOp' = Op("clock", "clock", Null, Null, NoIO)
    /\ UNCHANGED <<daemon, currentBlock, checkupInterval, hosts, stateFile, sockets, intervals>>
    /\ UNCHANGED Elsewhere

\* an external writer deletes the lines of the block section, markers included
DeleteSection(content) ==
    LET startIndex == IndexOf(content, BLOCK_MARKER_START)
        endIndex == IndexOf(content, BLOCK_MARKER_END)
        rest == SubSeq(content, endIndex + 1, Len(content))
    IN SubSeq(content, 1, startIndex - 1)
       \o (IF rest # <<>> /\ Head(rest) = NL THEN Tail(rest) ELSE rest)

TamperDeleteSection ==
    /\ IndexOf(hosts, BLOCK_MARKER_START) # 0
    /\ IndexOf(hosts, BLOCK_MARKER_END) > IndexOf(hosts, BLOCK_MARKER_START)
    /\ hosts' = DeleteSection(hosts)
    /\ response' = Null
    /\ lastOp' = Op("tamper", "delete-section", Null, Null, NoIO)
    /\ UNCHANGED <<daemon, currentBlock, checkupInterval, stateFile, now, sockets, intervals>>
    /\ UNCHANGED Elsewhere

Next ==
    \/ Main
    \/ Signal
    \/ \E c \in Commands :
          \E f \in (IF c.action \in {"start-block", "clear-block"} THEN Faults ELSE {NoFaults}) :
             Command(c, f)
    \/ \E f \in Faults : Tick(f)
    \/ AdvanceClock
    \/ TamperDeleteSection

Spec == Init /\ [][Next]_vars

\* The daemon on a system whose calls all succeed; the interval fires for as
\* long as it is set.
ReliableNext ==
    \/ Main
    \/ Signal
    \/ \E c \in Commands : Command(c, NoFaults)
    \/ Tick(NoFaults)
    \/ AdvanceClock
    \/ TamperDeleteSection

LiveSpec == Init /\ [][ReliableNext]_vars /\ WF_vars(Tick(NoFaults))

(***************************************************************************)
(* The daemon on a system whose writes of the hosts file may fail.  The    *)
(* interval fires for as long as it is set, and the writes do not fail for *)
(* ever: a firing whose calls succeed comes in the end.                    *)
(***************************************************************************)
WriteFaults == {NoFaults, [NoFaults EXCEPT !.wr = FALSE]}

RetryNext ==
    \/ Main
    \/ Signal
    \/ \E c \in Commands :
          \E f \in (IF c.action \in {"start-block", "clear-block"}
                    THEN WriteFaults ELSE {NoFaults}) :
             Command(c, f)
    \/ \E f \in WriteFaults : Tick(f)
    \/ AdvanceClock
    \/ TamperDeleteSection

RetrySpec == Init /\ [][RetryNext]_vars /\ WF_vars(Tick(NoFaults))

(***************************************************************************)
(* The daemon on a system whose calls all succeed, with an external writer *)
(* that edits the block section in the hosts file: it deletes the section, *)
(* deletes its redirect lines and leaves the markers, or deletes the end   *)
(* marker.                                                                 *)
(***************************************************************************)
RECURSIVE JoinLines(_)
JoinLines(ls) ==
    IF ls = <<>> THEN <<>>
    ELSE IF Len(ls) = 1 THEN ls[1]
    ELSE ls[1] \o <<NL>> \o JoinLines(Tail(ls))

IsRedirectLine(l) == l # <<>> /\ Head(l) \in {IPV4, IPV6}

DeleteRedirectLines(content) ==
    JoinLines(SelectSeq(Split(content), LAMBDA l : ~IsRedirectLine(l)))

DeleteEndMarker(content) ==
    JoinLines(SelectSeq(Split(content), LAMBDA l : l # <<BLOCK_MARKER_END>>))

TamperDeleteRedirects ==
    /\ \E i \in 1..Len(hosts) : hosts[i] \in {IPV4, IPV6}
    /\ hosts' = DeleteRedirectLines(hosts)
    /\ response' = Null
    /\ lastOp' = Op("tamper", "delete-redirects", Null, Null, NoIO)
    /\ UNCHANGED <<daemon, currentBlock, checkupInterval, stateFile, now, sockets, intervals>>
    /\ UNCHANGED Elsewhere

TamperDeleteEndMarker ==
    /\ Includes(hosts, BLOCK_MARKER_END)
    /\ hosts' = DeleteEndMarker(hosts)
    /\ response' = Null
    /\ lastOp' = Op("tamper", "delete-end-marker", Null, Null, NoIO)
    /\ UNCHANGED <<daemon, currentBlock, checkupInterval, stateFile, now, sockets, intervals>>
    /\ UNCHANGED Elsewhere

TamperNext ==
    \/ Main
    \/ Signal
    \/ \E c \in Commands : Command(c, NoFaults)
    \/ Tick(NoFaults)
    \/ AdvanceClock
    \/ TamperDeleteSection
    \/ TamperDeleteRedirects
    \/ TamperDeleteEndMarker

TamperSpec == Init /\ [][TamperNext]_vars

(***************************************************************************)
(* The daemon over restarts, with a state file that may be missing or      *)
(* damaged when it starts and a process that may be killed while saveState *)
(* writes the file.  fs.writeFileSync opens the file for writing, which    *)
(* empties it, and then writes the text: a process killed before the open  *)
(* leaves the old document, one killed after the last write the new one,   *)
(* one killed in between an empty or partial file.                         *)
(***************************************************************************)
StartupInit ==
    /\ daemon = "stopped"
    /\ currentBlock = Null
    /\ checkupInterval = FALSE
    /\ hosts \in InitialHosts
    /\ stateFile \in {Missing, Corrupt}
    /\ now = 0
    /\ response = Null
    /\ lastOp = Op("init", "init", Null, Null, NoIO)
    /\ sockets = NoConnections
    /\ intervals = 0
    /\ ElsewhereInit

\* the state file a kill inside saveState may leave
TornOutcomes(old, new) == {old, Corrupt, new}

\* the process is killed inside the saveState of a start-block or a clear-block
CrashInSave(c) ==
    /\ daemon = "running"
    /\ \E r \in {handleCommand(c, Sys, now, NoFaults)} :
          /\ r.io.save # "none"
          /\ hosts' = r.s.hosts
          /\ currentBlock' = r.s.currentBlock
          /\ stateFile' \in TornOutcomes(stateFile, r.s.stateFile)
          /\ lastOp' = Op("crash", "in-save", c, [stateFile |-> stateFile],
                          [r.io EXCEPT !.save = "killed"])
    /\ daemon' = "stopped"
    /\ checkupInterval' = FALSE
    /\ intervals' = 0
    /\ response' = Null
    /\ sockets' = NoConnections
    /\ UNCHANGED now
    /\ UNCHANGED Elsewhere

\* the process is killed inside the saveState of an expiry
CrashInExpiry ==
    /\ daemon = "running"
    /\ checkupInterval
    /\ \E r \in {checkupTick(Sys, now, NoFaults)} :
          /\ r.io.save # "none"
          /\ hosts' = r.s.hosts
          /\ currentBlock' = r.s.currentBlock
          /\ stateFile' \in TornOutcomes(stateFile, r.s.stateFile)
          /\ lastOp' = Op("crash", "in-expiry", Null, [stateFile |-> stateFile],
                          [r.io EXCEPT !.save = "killed"])
    /\ daemon' = "stopped"
    /\ checkupInterval' = FALSE
    /\ intervals' = 0
    /\ response' = Null
    /\ sockets' = NoConnections
    /\ UNCHANGED now
    /\ UNCHANGED Elsewhere

\* the process is killed inside a start-block or a clear-block after
\* writeHostsFile has returned true and before currentBlock is assigned
CrashAfterHostsWrite(c) ==
    /\ daemon = "running"
    /\ \E r \in {handleCommand(c, Sys, now, NoFaults)} :
          /\ r.io.wr = "ok"
          /\ hosts' = r.s.hosts
          /\ lastOp' = Op("crash", "after-hosts-write", c, [stateFile |-> stateFile],
                          [NoIO EXCEPT !.rd = r.io.rd, !.wr = "ok"])
    /\ daemon' = "stopped"
    /\ checkupInterval' = FALSE
    /\ intervals' = 0
    /\ response' = Null
    /\ sockets' = NoConnections
    /\ UNCHANGED <<currentBlock, stateFile, now>>
    /\ UNCHANGED Elsewhere

\* The daemon over restarts, with a process that may be killed at the points
\* of a start-block or a clear-block between which the files differ.
CrashNext ==
    \/ Main
    \/ Signal
    \/ \E c \in Commands : Command(c, NoFaults)
    \/ Tick(NoFaults)
    \/ AdvanceClock
    \/ \E c \in Commands : CrashAfterHostsWrite(c)
    \/ \E c \in Commands : CrashInSave(c)

CrashSpec == Init /\ [][CrashNext]_vars

StartupNext ==
    \/ Main
    \/ Signal
    \/ \E c \in Commands : Command(c, NoFaults)
    \/ Tick(NoFaults)
    \/ AdvanceClock
    \/ \E c \in Commands : CrashInSave(c)
    \/ CrashInExpiry

StartupSpec == StartupInit /\ [][StartupNext]_vars

(***************************************************************************)
(* The IPC channel: connections and the text that arrives on them.         *)
(***************************************************************************)
Line(l) == l \o <<NL>>

PingLine == <<LBRACE, M_PING, RBRACE>>
StatusLine == <<LBRACE, M_STATUS, RBRACE>>
ClearLine == <<LBRACE, M_CLEAR, RBRACE>>
BogusLine == <<LBRACE, M_BOGUS, RBRACE>>
\* an object without an action
NoActionLine == <<LBRACE, M_ID, RBRACE>>
NullLine == <<JSON_NULL>>
StartLineA == <<LBRACE, M_START, COMMA, M_DOMAINS_A, COMMA, M_END_2, COMMA, M_ID, RBRACE>>
StartLineBA == <<LBRACE, M_START, COMMA, M_DOMAINS_BA, COMMA, M_END_1, RBRACE>>
\* a start-block without domains
StartLineNoDomains == <<LBRACE, M_START, COMMA, M_END_1, RBRACE>>
\* texts that are not JSON: an object cut short, a trailing comma
TruncatedLine == <<LBRACE, M_PING>>
TrailingCommaLine == <<LBRACE, M_PING, COMMA, RBRACE>>

\* the chunks of data a client sends: whole lines, several lines at once, a
\* blank line between two requests, and a line in two pieces
Chunks ==
    {Line(PingLine), Line(StatusLine), Line(ClearLine), Line(BogusLine),
     Line(NoActionLine), Line(NullLine),
     Line(StartLineA), Line(StartLineBA), Line(StartLineNoDomains),
     Line(TrailingCommaLine),
     Line(TruncatedLine) \o Line(PingLine),
     Line(StatusLine) \o <<SP, NL>> \o Line(BogusLine),
     Line(StartLineBA) \o Line(StartLineA),
     <<LBRACE>>,
     <<M_PING, RBRACE, NL>>,
     <<NL>>}

\* net.createServer's connection listener: a new socket with an empty buffer
Connect(c) ==
    /\ daemon = "running"
    /\ ~sockets[c].open
    /\ sockets' = [sockets EXCEPT ![c] = [open |-> TRUE, buffer |-> <<>>]]
    /\ response' = Null
    /\ lastOp' = Op("connect", "connect", [conn |-> c], Null, NoIO)
    /\ UNCHANGED <<daemon, currentBlock, checkupInterval, hosts, stateFile, now, intervals>>
    /\ UNCHANGED Elsewhere

\* the client ends the connection (the socket's close event)
Close(c) ==
    /\ daemon = "running"
    /\ sockets[c].open
    /\ sockets' = [sockets EXCEPT ![c] = Closed]
    /\ response' = Null
    /\ lastOp' = Op("close", "close", [conn |-> c], Null, NoIO)
    /\ UNCHANGED <<daemon, currentBlock, checkupInterval, hosts, stateFile, now, intervals>>
    /\ UNCHANGED Elsewhere

\* one data event on the connection c
Data(c, data, f) ==
    /\ daemon = "running"
    /\ sockets[c].open
    /\ \E r \in {onData(sockets[c].buffer, data, Sys, now, f)} :
          /\ Len(r.buffer) <= MaxPending
          /\ Assign(r.s)
          /\ sockets' = [sockets EXCEPT ![c].buffer = r.buffer]
          /\ response' = [writes |-> r.out]
          /\ lastOp' = [op |-> "data", branch |-> "data",
                        req |-> [conn |-> c, data |-> data],
                        pre |-> [buffer |-> sockets[c].buffer], io |-> NoIO, trace |-> r.trace]
    /\ UNCHANGED <<daemon, now>>
    /\ UNCHANGED Elsewhere

\* One run of the daemon on a system whose calls all succeed, with its clients.
ConnNext ==
    \/ Main
    \/ \E c \in Conns : Connect(c)
    \/ \E c \in Conns : Close(c)
    \/ \E c \in Conns : \E data \in Chunks : Data(c, data, NoFaults)
    \/ Tick(NoFaults)
    \/ AdvanceClock

ConnSpec == Init /\ [][ConnNext]_vars

(***************************************************************************)
(* Requests the client library does not send: texts that are not JSON,     *)
(* null, and start-block objects without domains, without endTime, or with *)
(* an endTime that is null or true; next to them a start-block and a       *)
(* clear-block of the client's, and a get-status.                          *)
(***************************************************************************)
StartLineNoEndTime == <<LBRACE, M_START, COMMA, M_DOMAINS_A, RBRACE>>
StartLineEndNull == <<LBRACE, M_START, COMMA, M_DOMAINS_BA, COMMA, M_END_NULL, RBRACE>>
StartLineEndTrue == <<LBRACE, M_START, COMMA, M_DOMAINS_BA, COMMA, M_END_TRUE, RBRACE>>

RequestChunks ==
    {Line(StartLineA), Line(ClearLine), Line(StatusLine),
     Line(TruncatedLine), Line(TrailingCommaLine), Line(NullLine),
     Line(StartLineNoDomains), Line(StartLineNoEndTime),
     Line(StartLineEndNull), Line(StartLineEndTrue)}

RequestNext ==
    \/ Main
    \/ Signal
    \/ \E c \in Conns : Connect(c)
    \/ \E c \in Conns : Close(c)
    \/ \E c \in Conns : \E data \in RequestChunks : Data(c, data, NoFaults)
    \/ Tick(NoFaults)
    \/ AdvanceClock

RequestSpec == Init /\ [][RequestNext]_vars

(***************************************************************************)
(* The hosts editor on its own: removeBlockFromHosts and addBlockToHosts   *)
(* applied to any hosts content of at most MaxContent tokens, and          *)
(* removeBlockFromHosts also to the result of an insertion.                *)
(***************************************************************************)
HostsTokens == {U1, NL, SP, BLOCK_MARKER_START, BLOCK_MARKER_END}

Contents == UNION {[1..n -> HostsTokens] : n \in 0..MaxContent}

EditorDomainLists == {<<>>, <<D1>>, <<D2, D1>>, <<D3, D2>>}

EditorInit ==
    /\ daemon = "stopped"
    /\ currentBlock = Null
    /\ checkupInterval = FALSE
    /\ hosts \in Contents
    /\ stateFile = Missing
    /\ now = 0
    /\ response = Null
    /\ lastOp = Op("init", "init", Null, Null, NoIO)
    /\ sockets = NoConnections
    /\ intervals = 0
    /\ ElsewhereInit

\* addBlockToHosts(content, domains) on the current content
Insert(domains) ==
    /\ Len(hosts) <= MaxContent
    /\ hosts' = addBlockToHosts(hosts, domains)
    /\ lastOp' = Op("insert", "insert", [domains |-> domains], [content |-> hosts], NoIO)
    /\ UNCHANGED <<daemon, currentBlock, checkupInterval, stateFile, now, response, sockets,
                   intervals>>
    /\ UNCHANGED Elsewhere

\* removeBlockFromHosts(content) on the current content
Remove ==
    /\ Len(hosts) <= MaxContent \/ lastOp.op = "insert"
    /\ hosts' = removeBlockFromHosts(hosts)
    /\ lastOp' = Op("remove", "remove", Null, [content |-> hosts], NoIO)
    /\ UNCHANGED <<daemon, currentBlock, checkupInterval, stateFile, now, response, sockets,
                   intervals>>
    /\ UNCHANGED Elsewhere

EditorNext ==
    \/ \E domains \in EditorDomainLists : Insert(domains)
    \/ Remove

EditorSpec == EditorInit /\ [][EditorNext]_vars

(***************************************************************************)
(* The app's side of the channel: HelperClient.send and isRunning.  A call *)
(* creates a socket, two timers and the flag resolved; the listeners of    *)
(* the socket and the callbacks of the timers run in whatever order the    *)
(* socket and the clock produce their events.                              *)
(***************************************************************************)
MaxResponse == 3

\* texts of a response line
R_PONG == "{\"success\":true,\"message\":\"pong\"}"
R_ERROR == "{\"success\":false,\"error\":\"Unknown command: ping\"}"
R_IDLE == "{\"active\":false}"
R_CUT == "{\"success\":tr"

\* JSON.parse(responseStr)
ParseResponse(text) ==
    CASE text = <<R_PONG>> ->
            [threw |-> FALSE, value |-> [success |-> TRUE, message |-> "pong"]]
      [] text = <<R_ERROR>> ->
            [threw |-> FALSE, value |-> [success |-> FALSE, error |-> "Unknown command: ping"]]
      [] text = <<R_IDLE>> -> [threw |-> FALSE, value |-> [active |-> FALSE]]
      [] text = <<JSON_NULL>> -> [threw |-> FALSE, value |-> Null]
      [] OTHER -> [threw |-> TRUE]

\* the chunks of data the socket may deliver
ResponseChunks ==
    {<<R_PONG, NL>>, <<R_ERROR, NL>>, <<R_IDLE, NL>>, <<JSON_NULL, NL>>, <<R_CUT, NL>>,
     <<R_PONG>>, <<R_CUT>>, <<NL>>, <<R_PONG, NL, R_ERROR, NL>>}

\* err.code of the socket's error event
ErrorCodes == {"ENOENT", "ECONNREFUSED", "ECONNRESET"}

\* the commands the app sends
ClientCommands == {[action |-> "ping"], [action |-> "get-status"]}

\* isRunning's response.success === true; response.success of null throws
IsSuccess(value) ==
    IF value = Null THEN [threw |-> TRUE]
    ELSE [threw |-> FALSE, value |-> "success" \in DOMAIN value /\ value.success = TRUE]

\* isRunning without its try/catch
isRunning_NoCatch(settlement) ==
    IF settlement.kind = "reject" THEN "threw"
    ELSE LET r == IsSuccess(settlement.value)
         IN IF r.threw THEN "threw" ELSE IF r.value THEN "true" ELSE "false"

\* what isRunning returns once the promise of its send is settled
isRunning(settlement) ==
    IF settlement.kind = "reject" THEN "false"
    ELSE LET r == IsSuccess(settlement.value)
         IN IF r.threw THEN "false" ELSE IF r.value THEN "true" ELSE "false"

\* resolve(value) or reject(error): a promise keeps its first settlement; the
\* calls made are recorded, and an isRunning that awaits the promise returns
Settle(cl, settlement) ==
    [cl EXCEPT !.settlements = Append(@, settlement),
               !.returned = IF cl.call = "isRunning" /\ cl.settlements = <<>>
                            THEN isRunning(settlement)
                            ELSE @]

ClearTimeout(timer) == IF timer = "set" THEN "cleared" ELSE timer

\* cleanup(): socket.destroy() unless destroyed
Cleanup(cl) == [cl EXCEPT !.destroyed = TRUE]

\* the callback of a timer: reject unless resolved
TimeoutCallback(cl, message) ==
    IF ~cl.resolved
    THEN Settle(Cleanup([cl EXCEPT !.resolved = TRUE]), [kind |-> "reject", error |-> message])
    ELSE cl

\* the connect listener
clientOnConnect(cl, command) ==
    [cl EXCEPT !.connected = TRUE,
               !.connectionTimer = ClearTimeout(@),
               !.written = Append(@, <<JSONStringify(command), NL>>)]

\* the data listener without the test of resolved
clientOnData_Unguarded(cl, data) ==
    LET buffer == cl.responseBuffer \o data
        newlineIndex == IndexOf(buffer, NL)
        responseStr == SubSeq(buffer, 1, newlineIndex - 1)
        got == [cl EXCEPT !.responseBuffer = buffer]
    IN IF newlineIndex # 0
       THEN LET done == Cleanup([got EXCEPT !.resolved = TRUE,
                                            !.connectionTimer = ClearTimeout(@),
                                            !.responseTimer = ClearTimeout(@)])
                parsed == ParseResponse(responseStr)
            IN IF parsed.threw
               THEN Settle(done, [kind |-> "reject",
                                  error |-> "Invalid response from helper"])
               ELSE Settle(done, [kind |-> "resolve", value |-> parsed.value])
       ELSE got

\* the data listener
clientOnData(cl, data) ==
    LET buffer == cl.responseBuffer \o data
        newlineIndex == IndexOf(buffer, NL)
        responseStr == SubSeq(buffer, 1, newlineIndex - 1)
        got == [cl EXCEPT !.responseBuffer = buffer]
    IN IF newlineIndex # 0 /\ ~cl.resolved
       THEN LET done == Cleanup([got EXCEPT !.resolved = TRUE,
                                            !.connectionTimer = ClearTimeout(@),
                                            !.responseTimer = ClearTimeout(@)])
                parsed == ParseResponse(responseStr)
            IN IF parsed.threw
               THEN Settle(done, [kind |-> "reject",
                                  error |-> "Invalid response from helper"])
               ELSE Settle(done, [kind |-> "resolve", value |-> parsed.value])
       ELSE got

\* the error listener
clientOnError(cl, code) ==
    IF ~cl.resolved
    THEN Settle(Cleanup([cl EXCEPT !.resolved = TRUE,
                                   !.connectionTimer = ClearTimeout(@),
                                   !.responseTimer = ClearTimeout(@)]),
                [kind |-> "reject",
                 error |-> IF code \in {"ENOENT", "ECONNREFUSED"}
                           THEN "Helper daemon not running. Please install the helper first."
                           ELSE code])
    ELSE cl

\* the close listener
clientOnClose(cl) ==
    IF ~cl.resolved
    THEN Settle([cl EXCEPT !.resolved = TRUE,
                           !.connectionTimer = ClearTimeout(@),
                           !.responseTimer = ClearTimeout(@)],
                [kind |-> "reject", error |-> "Connection closed unexpectedly"])
    ELSE cl

DaemonVars ==
    <<daemon, currentBlock, checkupInterval, hosts, stateFile, now, response, lastOp,
      sockets, intervals>>

\* the app calls send(command) or isRunning(): new socket, both timers set,
\* socket.connect
Send(method, command) ==
    /\ client.call = "none"
    /\ method = "isRunning" => command = [action |-> "ping"]
    /\ client' = [NoCall EXCEPT !.call = method, !.command = command,
                                !.connectionTimer = "set", !.responseTimer = "set"]
    /\ UNCHANGED <<DaemonVars, instances, socketPath, framing>>

\* The socket's events.  Until the socket has closed the listeners run in any
\* order, also after socket.destroy(); the socket connects once, an error is
\* reported once, ENOENT and ECONNREFUSED instead of the connect, and the close
\* event comes last.
SocketConnects ==
    /\ client.call # "none"
    /\ ~client.connected /\ ~client.failed /\ ~client.closed
    /\ client' = clientOnConnect(client, client.command)
    /\ UNCHANGED <<DaemonVars, instances, socketPath, framing>>

SocketData(data) ==
    /\ client.connected /\ ~client.closed
    /\ Len(client.responseBuffer \o data) <= MaxResponse
    /\ client' = clientOnData(client, data)
    /\ UNCHANGED <<DaemonVars, instances, socketPath, framing>>

SocketError(code) ==
    /\ client.call # "none"
    /\ ~client.failed /\ ~client.closed
    /\ code \in {"ENOENT", "ECONNREFUSED"} => ~client.connected
    /\ client' = [clientOnError(client, code) EXCEPT !.failed = TRUE]
    /\ UNCHANGED <<DaemonVars, instances, socketPath, framing>>

SocketCloses ==
    /\ client.call # "none"
    /\ ~client.closed
    /\ client.connected \/ client.destroyed \/ client.failed
    /\ client' = [clientOnClose(client) EXCEPT !.closed = TRUE]
    /\ UNCHANGED <<DaemonVars, instances, socketPath, framing>>

\* the timers: the connection timeout (5 s) is due before the response
\* timeout (10 s); a cleared timer does not fire
ConnectionTimeoutFires ==
    /\ client.connectionTimer = "set"
    /\ client' = TimeoutCallback([client EXCEPT !.connectionTimer = "fired"],
                                 "Connection timeout - helper daemon may not be running")
    /\ UNCHANGED <<DaemonVars, instances, socketPath, framing>>

ResponseTimeoutFires ==
    /\ client.responseTimer = "set"
    /\ client.connectionTimer # "set"
    /\ client' = TimeoutCallback([client EXCEPT !.responseTimer = "fired"],
                                 "Response timeout")
    /\ UNCHANGED <<DaemonVars, instances, socketPath, framing>>

ClientNext ==
    \/ \E method \in {"send", "isRunning"} : \E command \in ClientCommands :
          Send(method, command)
    \/ SocketConnects
    \/ \E data \in ResponseChunks : SocketData(data)
    \/ \E code \in ErrorCodes : SocketError(code)
    \/ SocketCloses
    \/ ConnectionTimeoutFires
    \/ ResponseTimeoutFires

\* a timer that is set fires when it is due
ClientSpec ==
    /\ Init
    /\ [][ClientNext]_vars
    /\ WF_vars(ConnectionTimeoutFires)
    /\ WF_vars(ResponseTimeoutFires)

(***************************************************************************)
(* A machine on which the helper is started while a helper is running.     *)
(* Each process has its own currentBlock and checkupInterval; the hosts    *)
(* file and the state file are those of the machine.  startServer removes  *)
(* SOCKET_PATH and listens on it (the branch for platforms other than      *)
(* win32), so the path leads to the server that was started last; the      *)
(* client makes a new connection for each command.                         *)
(***************************************************************************)
\* the state a handler of the process i works on
SysOf(i) ==
    [hosts |-> hosts, currentBlock |-> instances[i].currentBlock,
     stateFile |-> stateFile, checkupInterval |-> instances[i].checkupInterval,
     intervals |-> instances[i].intervals]

\* ... and the assignments it made
AssignTo(i, s) ==
    /\ hosts' = s.hosts
    /\ stateFile' = s.stateFile
    /\ instances' = [instances EXCEPT ![i].currentBlock = s.currentBlock,
                                      ![i].checkupInterval = s.checkupInterval,
                                      ![i].intervals = s.intervals]

\* the commands of the client in this specification
TwoCommands ==
    {[action |-> "start-block", domains |-> <<D1>>, endTime |-> 2, blocklistId |-> "x"],
     [action |-> "start-block", domains |-> <<D2, D1>>, endTime |-> 1, blocklistId |-> "x"],
     [action |-> "clear-block"], [action |-> "get-status"]}

\* main() of the process i
StartInstance(i) ==
    /\ instances[i].daemon = "stopped"
    /\ LET cb == loadState(stateFile, now)
       IN /\ instances' = [instances EXCEPT ![i] =
                             [daemon |-> "running", currentBlock |-> cb,
                              checkupInterval |-> cb # Null,
                              intervals |-> IF cb # Null THEN 1 ELSE 0]]
          /\ lastOp' = Op("main", IF cb # Null THEN "restored" ELSE "empty",
                          Null, [instance |-> i], NoIO)
    /\ socketPath' = i
    /\ response' = Null
    /\ UNCHANGED <<daemon, currentBlock, checkupInterval, hosts, stateFile, now, sockets,
                   intervals, client, framing>>

\* SIGTERM or SIGINT for the process i: server.close(), stopCheckupTimer(),
\* process.exit(0).  The server of the process is gone; a path that leads to
\* the other server may survive the close or be removed by it.
ExitInstance(i) ==
    /\ instances[i].daemon = "running"
    /\ instances' = [instances EXCEPT ![i] = NotStarted]
    /\ socketPath' \in (IF socketPath = i THEN {0} ELSE {0, socketPath})
    /\ response' = Null
    /\ lastOp' = Op("signal", "exit", Null, [instance |-> i], NoIO)
    /\ UNCHANGED <<daemon, currentBlock, checkupInterval, hosts, stateFile, now, sockets,
                   intervals, client, framing>>

\* a command of the client, handled by the server the path leads to
Request(i, c) ==
    /\ instances[i].daemon = "running"
    /\ socketPath = i
    /\ \E r \in {handleCommand(c, SysOf(i), now, NoFaults)} :
          /\ AssignTo(i, r.s)
          /\ response' = Respond(r)
          /\ lastOp' = Op(c.action, r.branch, c, [instance |-> i], r.io)
    /\ UNCHANGED <<daemon, currentBlock, checkupInterval, now, sockets, intervals,
                   socketPath, client, framing>>

\* a firing of the checkup interval of the process i
Fire(i) ==
    /\ instances[i].daemon = "running"
    /\ instances[i].checkupInterval
    /\ \E r \in {checkupTick(SysOf(i), now, NoFaults)} :
          /\ AssignTo(i, r.s)
          /\ lastOp' = Op("tick", r.branch, Null, [instance |-> i], r.io)
    /\ response' = Null
    /\ UNCHANGED <<daemon, currentBlock, checkupInterval, now, sockets, intervals,
                   socketPath, client, framing>>

TwoInstanceNext ==
    \/ \E i \in Instances : StartInstance(i)
    \/ \E i \in Instances : ExitInstance(i)
    \/ \E i \in Instances : \E c \in TwoCommands : Request(i, c)
    \/ \E i \in Instances : Fire(i)
    \/ AdvanceClock

TwoInstanceSpec == Init /\ [][TwoInstanceNext]_vars

(***************************************************************************)
(* A stream of request text that reaches the daemon on one connection in   *)
(* pieces of any size: each data event carries the next piece.             *)
(***************************************************************************)
\* requests with a blank line between them and the beginning of a request at
\* the end; a start-block, an empty line, a text that is not JSON, a
\* clear-block and a ping
Streams ==
    {Line(StatusLine) \o Line(StartLineA) \o <<SP, NL>> \o Line(StatusLine)
        \o <<LBRACE, M_CLEAR>>,
     Line(StartLineBA) \o <<NL>> \o Line(TruncatedLine) \o Line(ClearLine)
        \o Line(PingLine)}

StreamConn == "c1"

FramingInit ==
    /\ daemon = "stopped"
    /\ currentBlock = Null
    /\ checkupInterval = FALSE
    /\ hosts \in InitialHosts
    /\ stateFile = Missing
    /\ now = 0
    /\ response = Null
    /\ lastOp = Op("init", "init", Null, Null, NoIO)
    /\ sockets = NoConnections
    /\ intervals = 0
    /\ client = NoCall
    /\ instances = NoInstances
    /\ socketPath = 0
    /\ framing \in {[fed |-> <<>>, rest |-> st, out |-> <<>>] : st \in Streams}

\* a data event with the next k pieces of the stream
Feed(k) ==
    /\ daemon = "running"
    /\ sockets[StreamConn].open
    /\ k \in 1..Len(framing.rest)
    /\ \E data \in {SubSeq(framing.rest, 1, k)} :
       \E r \in {onData(sockets[StreamConn].buffer, data, Sys, now, NoFaults)} :
          /\ Assign(r.s)
          /\ sockets' = [sockets EXCEPT ![StreamConn].buffer = r.buffer]
          /\ response' = [writes |-> r.out]
          /\ lastOp' = [op |-> "data", branch |-> "data",
                        req |-> [conn |-> StreamConn, data |-> data],
                        pre |-> [buffer |-> sockets[StreamConn].buffer], io |-> NoIO,
                        trace |-> r.trace]
          /\ framing' = [fed |-> framing.fed \o data,
                         rest |-> SubSeq(framing.rest, k + 1, Len(framing.rest)),
                         out |-> framing.out \o r.out]
    /\ UNCHANGED <<daemon, now, client, instances, socketPath>>

FramingNext ==
    \/ Main
    \/ Connect(StreamConn)
    \/ \E k \in 1..Len(framing.rest) : Feed(k)

FramingSpec == FramingInit /\ [][FramingNext]_vars

(***************************************************************************)
(* Observations used by the properties.                                    *)
(***************************************************************************)
Count(s, t) == Cardinality({i \in 1..Len(s) : s[i] = t})

\* the lines of a text: the pieces between newlines
RECURSIVE Lines(_)
Lines(s) ==
    LET i == IndexOf(s, NL)
    IN IF i = 0 THEN <<s>> ELSE <<SubSeq(s, 1, i - 1)>> \o Lines(SubSeq(s, i + 1, Len(s)))

\* the redirect lines of a text, in order
RedirectLinesOf(s) ==
    SelectSeq(Lines(s), LAMBDA l : l # <<>> /\ Head(l) \in {IPV4, IPV6})

\* the host name a raw domain of DomainPool stands for, written out by hand
HostOf(domain) ==
    CASE domain = D1 -> <<"a">>
      [] domain = D2 -> <<"b">>
      [] domain = D3 -> <<"p">>

RECURSIVE ExpectedRedirects(_)
ExpectedRedirects(domains) ==
    IF domains = <<>> THEN <<>>
    ELSE LET h == HostOf(Head(domains))
         IN << <<IPV4, SP>> \o h, <<IPV4, SP, WWW>> \o h,
               <<IPV6, SP>> \o h, <<IPV6, SP, WWW>> \o h >>
            \o ExpectedRedirects(Tail(domains))

\* the text holds one block section and its redirect lines are those of domains
HasSectionFor(content, domains) ==
    /\ Count(content, BLOCK_MARKER_START) = 1
    /\ Count(content, BLOCK_MARKER_END) = 1
    /\ IndexOf(content, BLOCK_MARKER_START) < IndexOf(content, BLOCK_MARKER_END)
    /\ RedirectLinesOf(content) = ExpectedRedirects(domains)
    /\ RedirectLinesOf(SubSeq(content, IndexOf(content, BLOCK_MARKER_START),
                              IndexOf(content, BLOCK_MARKER_END)))
         = ExpectedRedirects(domains)

\* the text holds nothing of a block section
NoSection(content) ==
    /\ Count(content, BLOCK_MARKER_START) = 0
    /\ Count(content, BLOCK_MARKER_END) = 0
    /\ RedirectLinesOf(content) = <<>>

\* two block values read the same
SameBlock(a, b) ==
    IF a = Null \/ b = Null THEN a = b
    ELSE /\ a.domains = b.domains
         /\ a.endTime = b.endTime
         /\ Field(a, "blocklistId") = Field(b, "blocklistId")

NullDocument == [currentBlock |-> Null]

HasPersistedBlock == stateFile \notin {Missing, Corrupt} /\ stateFile.currentBlock # Null

\* the step taken is a firing of the checkup interval
TickStep == daemon = "running" /\ checkupInterval /\ lastOp'.op = "tick" /\ vars' # vars

\* the step taken handles a command of the given action
CommandStep(action) == daemon = "running" /\ lastOp'.op = action /\ vars' # vars

MainStep == daemon = "stopped" /\ daemon' = "running"

SignalStep == daemon = "running" /\ daemon' = "stopped"

(***************************************************************************)
(* Properties.                                                             *)
(***************************************************************************)
ExpiredTick ==
    /\ TickStep
    /\ currentBlock # Null
    /\ now >= currentBlock.endTime

CleanedUp ==
    /\ NoSection(hosts')
    /\ currentBlock' = Null
    /\ stateFile' = NullDocument
    /\ getStatus(currentBlock', now') = [active |-> FALSE]

TimerCoversBlock == (daemon' = "running" /\ currentBlock' # Null) => checkupInterval'

TamperedTick ==
    /\ TickStep
    /\ currentBlock # Null
    /\ now < currentBlock.endTime
    /\ NoSection(hosts)

\* C2 (as stated): a tick that runs for an active, unexpired BlockState while
\* the hosts content has no block section leaves the section in place again,
\* built from the BlockState's domains in their order.
C2_AsStated == [][TamperedTick => HasSectionFor(hosts', currentBlock.domains)]_vars

\* C2 (amended): such a tick writes the hosts file, and when the write
\* succeeds the section is in place again, built from the BlockState's domains
\* in their order; a tick whose write fails leaves the hosts content as it was.
C2_TamperRepair ==
    [][TamperedTick =>
         /\ lastOp'.io.wr \in {"ok", "fail"}
         /\ IF lastOp'.io.wr = "ok"
            THEN HasSectionFor(hosts', currentBlock.domains) /\ currentBlock' = currentBlock
            ELSE hosts' = hosts]_vars

C2_Witness ==
    /\ lastOp.op = "tick"
    /\ lastOp.branch = "repair"
    /\ lastOp.io.wr = "ok"
    /\ currentBlock # Null
    /\ Len(currentBlock.domains) = 2
    /\ HasSectionFor(hosts, currentBlock.domains)

\* C3: after a start-block answered with success the BlockState is exactly the
\* request's {domains, endTime, blocklistId} and the redirect lines of the
\* hosts content are those of the request's domains only, whatever block was
\* in force before.
C3_StartReplaces ==
    (lastOp.op = "start-block" /\ response = [success |-> TRUE]) =>
        /\ DOMAIN currentBlock = {"domains", "endTime", "blocklistId"}
        /\ currentBlock.domains = lastOp.req.domains
        /\ currentBlock.endTime = lastOp.req.endTime
        /\ currentBlock.blocklistId = Field(lastOp.req, "blocklistId")
        /\ HasSectionFor(hosts, lastOp.req.domains)

\* a second start-block with other domains, a shorter list, was accepted
C3_Witness ==
    /\ lastOp.op = "start-block"
    /\ response = [success |-> TRUE]
    /\ lastOp.pre # Null
    /\ lastOp.pre.domains = <<D2, D1>>
    /\ currentBlock.domains = <<D1>>
    /\ HasSectionFor(hosts, <<D1>>)

\* C4: a termination signal changes neither the hosts content nor the state
\* file, and a start with a persisted endTime in the future restores the
\* BlockState the daemon held when it shut down, with the timer running.
C4_SurvivesRestart ==
    [][/\ SignalStep => UNCHANGED <<hosts, stateFile>>
       /\ (MainStep /\ HasPersistedBlock /\ stateFile.currentBlock.endTime > now) =>
            /\ SameBlock(currentBlock', currentBlock)
            /\ checkupInterval']_vars

\* C5: a start that finds a persisted state with endTime <= now leaves the
\* BlockState null; a BlockState is restored only from endTime > now.
C5_ExpiredNotRestored ==
    lastOp.op = "main" =>
        /\ (HasPersistedBlock /\ stateFile.currentBlock.endTime <= now) => currentBlock = Null
        /\ currentBlock # Null =>
              /\ HasPersistedBlock
              /\ stateFile.currentBlock.endTime > now
              /\ SameBlock(currentBlock, stateFile.currentBlock)

C5_Witness ==
    /\ lastOp.op = "main"
    /\ HasPersistedBlock
    /\ stateFile.currentBlock.endTime = now
    /\ currentBlock = Null

StartedExpired ==
    /\ daemon = "running"
    /\ lastOp.op = "main"
    /\ HasPersistedBlock
    /\ stateFile.currentBlock.endTime <= now
    /\ containsBlock(hosts)

ClientActed == lastOp.op \in {c.action : c \in Commands}

\* C6: when the daemon has started on a persisted state whose endTime has
\* passed while the hosts content holds the block section, the hosts content
\* eventually holds no block section, without a client command.
C6_ExpiredWhileDownCleaned ==
    StartedExpired ~> (~containsBlock(hosts) \/ ClientActed)

ClearOfActiveBlock ==
    /\ CommandStep("clear-block")
    /\ currentBlock # Null

C8_ClearWithoutBlock ==
    [][(CommandStep("clear-block") /\ currentBlock = Null) =>
         /\ response' = [success |-> TRUE, message |-> "No active block"]
         /\ lastOp'.io = NoIO
         /\ UNCHANGED <<hosts, stateFile, currentBlock, checkupInterval>>]_vars

\* clear-block was answered "No active block" while the hosts content held a
\* section left by a block that expired while the daemon was down
C8_Witness ==
    /\ lastOp.op = "clear-block"
    /\ lastOp.branch = "no-block"
    /\ response = [success |-> TRUE, message |-> "No active block"]
    /\ currentBlock = Null
    /\ containsBlock(hosts)

StatusAnswer ==
    lastOp.op = "get-status" =>
        IF currentBlock = Null
        THEN response = [active |-> FALSE]
        ELSE /\ response.active = TRUE
             /\ response.domains = currentBlock.domains
             /\ response.endTime = currentBlock.endTime
             /\ response.blocklistId = Field(currentBlock, "blocklistId")
             /\ response.remainingMs =
                  (IF currentBlock.endTime > now THEN currentBlock.endTime - now ELSE 0)
             /\ response.remainingMs >= 0

\* C9: get-status answers {active:false} exactly when the BlockState is null,
\* and otherwise active:true with the BlockState's domains, endTime and
\* blocklistId and remainingMs = max(0, endTime - now); the remainingMs it
\* would answer never grows while the BlockState stays the same.
C9_GetStatus ==
    [][/\ StatusAnswer'
       /\ (currentBlock # Null /\ currentBlock' = currentBlock) =>
            getStatus(currentBlock', now').remainingMs
               <= getStatus(currentBlock, now).remainingMs]_vars

\* get-status was answered for a block whose endTime had passed
C9_Witness ==
    /\ lastOp.op = "get-status"
    /\ currentBlock # Null
    /\ now > currentBlock.endTime
    /\ response.active = TRUE
    /\ response.remainingMs = 0

\* C10: handling ping or get-status makes no system call and leaves the
\* BlockState, the state file, the hosts content and the timer as they were,
\* also when the block section is missing; ping answers success.
C10_ReadOnly ==
    [][(CommandStep("ping") \/ CommandStep("get-status")) =>
         /\ lastOp'.io = NoIO
         /\ UNCHANGED <<currentBlock, stateFile, hosts, checkupInterval>>
         /\ lastOp'.op = "ping" => response'.success = TRUE]_vars

\* get-status was answered for an active block whose section was missing
C10_Witness ==
    /\ lastOp.op = "get-status"
    /\ currentBlock # Null
    /\ now < currentBlock.endTime
    /\ response.active = TRUE
    /\ NoSection(hosts)

(***************************************************************************)
(* The IPC channel.                                                        *)
(***************************************************************************)
\* the lines of the clients that are JSON texts, listed by hand; every other
\* non-blank line they can put together is not JSON
JSONLines ==
    {PingLine, StatusLine, ClearLine, BogusLine, NoActionLine, NullLine,
     StartLineA, StartLineBA, StartLineNoDomains}

IsBlank(line) == \A i \in 1..Len(line) : line[i] = SP

\* the step taken is a data event on the connection c
DataStep(c) ==
    /\ daemon = "running"
    /\ sockets[c].open
    /\ lastOp'.op = "data"
    /\ lastOp'.req.conn = c

\* the text the connection c holds once the data of the step has arrived
TextAt(c) == sockets[c].buffer \o lastOp'.req.data

\* its lines ended by a newline, and those of them that are not blank
EndedLines(c) ==
    LET all == Lines(TextAt(c)) IN SubSeq(all, 1, Len(all) - 1)

RequestLines(c) == SelectSeq(EndedLines(c), LAMBDA l : ~IsBlank(l))

\* the trace of the step names the request lines in their order and chains
\* the daemon states from the state before the step to the state after it
TraceOfRequests(requests) ==
    LET trace == lastOp'.trace
        n == Len(requests)
    IN /\ Len(trace) = n
       /\ \A i \in 1..n : trace[i].line = requests[i]
       /\ n = 0 => Sys' = Sys
       /\ n > 0 => trace[1].before = Sys /\ trace[n].after = Sys'
       /\ \A i \in 1..(n - 1) : trace[i + 1].before = trace[i].after

InvalidJSONWrite == <<[success |-> FALSE, error |-> <<"Invalid JSON">>], NL>>

PongWrite == <<[success |-> TRUE, message |-> "pong"], NL>>

UnknownWrite(name) == <<[success |-> FALSE, error |-> <<"Unknown command: ", name>>], NL>>

\* the write w is an answer to the request line
Answers(w, line) ==
    /\ Len(w) = 2
    /\ w[2] = NL
    /\ CASE line = PingLine -> w = PongWrite
         [] line = BogusLine -> w = UnknownWrite("bogus")
         [] line = NoActionLine -> w = UnknownWrite("undefined")
         [] line = StatusLine -> "active" \in DOMAIN w[1]
         [] line = ClearLine -> DOMAIN w[1] \subseteq {"success", "message"} /\ w[1].success
         [] line \in {StartLineA, StartLineBA} -> w[1] = [success |-> TRUE]
         [] OTHER -> w = InvalidJSONWrite

\* C11: a line that is not JSON is answered with the write of
\* {"success":false,"error":"Invalid JSON"} and a newline, the connection
\* stays open, the daemon state is what it was before the line, and the
\* request lines after it on the connection are answered as usual.
C11_InvalidJSON ==
    [][\A c \in Conns : DataStep(c) =>
          LET requests == RequestLines(c)
          IN /\ TraceOfRequests(requests)
             /\ sockets'[c].open
             /\ Len(response'.writes) = Len(requests)
             /\ \A i \in 1..Len(requests) :
                   IF requests[i] \notin JSONLines
                   THEN /\ response'.writes[i] = InvalidJSONWrite
                        /\ lastOp'.trace[i].after = lastOp'.trace[i].before
                   ELSE Answers(response'.writes[i], requests[i])]_vars

\* a line cut short was answered "Invalid JSON" and the ping after it, on the
\* same connection, "pong"
C11_Witness ==
    /\ lastOp.op = "data"
    /\ lastOp.req.data = Line(TruncatedLine) \o Line(PingLine)
    /\ lastOp.pre.buffer = <<>>
    /\ response.writes = <<InvalidJSONWrite, PongWrite>>
    /\ sockets[lastOp.req.conn].open
    /\ currentBlock # Null

\* C12: a request that is a JSON object whose action is none of start-block,
\* clear-block, get-status and ping, or that has no action, is answered with
\* {success:false, error:"Unknown command: <name>"} where <name> is the action
\* received, and the daemon state is what it was before the request.
C12_UnknownCommand ==
    [][\A c \in Conns : DataStep(c) =>
          LET requests == RequestLines(c)
          IN /\ TraceOfRequests(requests)
             /\ Len(response'.writes) = Len(requests)
             /\ \A i \in 1..Len(requests) :
                   requests[i] \in {BogusLine, NoActionLine} =>
                      /\ response'.writes[i] =
                            UnknownWrite(IF requests[i] = BogusLine
                                         THEN "bogus" ELSE "undefined")
                      /\ lastOp'.trace[i].after = lastOp'.trace[i].before]_vars

\* an object without an action was answered while a block was active
C12_Witness ==
    /\ lastOp.op = "data"
    /\ lastOp.req.data = Line(NoActionLine)
    /\ lastOp.pre.buffer = <<>>
    /\ response.writes = <<UnknownWrite("undefined")>>
    /\ currentBlock # Null

\* C13: a data event writes one response for each non-blank line that the
\* connection's text holds ended by a newline, in the order of the lines, and
\* keeps the text after the last newline for the next event; so the writes of
\* a connection are the answers to its request lines in their order.
C13_ResponsesInOrder ==
    [][\A c \in Conns : DataStep(c) =>
          LET requests == RequestLines(c)
              all == Lines(TextAt(c))
          IN /\ Len(response'.writes) = Len(requests)
             /\ \A i \in 1..Len(requests) : Answers(response'.writes[i], requests[i])
             /\ sockets'[c].buffer = all[Len(all)]
             /\ \A d \in Conns \ {c} : sockets'[d] = sockets[d]]_vars

\* get-status and an unknown command, a blank line between them, were
\* answered in that order by one data event
C13_Witness ==
    /\ lastOp.op = "data"
    /\ lastOp.req.data = Line(StatusLine) \o <<SP, NL>> \o Line(BogusLine)
    /\ Len(response.writes) = 2
    /\ "active" \in DOMAIN response.writes[1][1]
    /\ response.writes[2] = UnknownWrite("bogus")

\* the second piece of a line arrived and the whole line was answered
C13_SplitLineAnswered ==
    /\ lastOp.op = "data"
    /\ lastOp.pre.buffer = <<LBRACE>>
    /\ lastOp.req.data = <<M_PING, RBRACE, NL>>
    /\ response.writes = <<PongWrite>>

(***************************************************************************)
(* Failures of the system calls.                                           *)
(***************************************************************************)
\* the step taken handles a start-block or a clear-block
GatedStep == CommandStep("start-block") \/ CommandStep("clear-block")

\* the last step handled a start-block or a clear-block
GatedOp == lastOp.op \in {"start-block", "clear-block"}

\* the request has the fields of the start-block schema
HasSchemaFields == {"domains", "endTime"} \subseteq DOMAIN lastOp.req

\* the state change of the command is complete: the BlockState, the block
\* section, the timer, and the persisted document unless its write failed
StateChangeDone ==
    /\ lastOp.io.fw # "none"
    /\ lastOp.io.dns # "none"
    /\ lastOp.io.save \in SaveOutcomes
    /\ lastOp.io.save = "ok" => stateFile = StateDocument(currentBlock)
    /\ IF lastOp.op = "start-block"
       THEN /\ currentBlock # Null
            /\ currentBlock.domains = lastOp.req.domains
            /\ currentBlock.endTime = lastOp.req.endTime
            /\ HasSectionFor(hosts, lastOp.req.domains)
            /\ checkupInterval
       ELSE /\ currentBlock = Null
            /\ NoSection(hosts)

Refused == "success" \in DOMAIN response /\ ~response.success

C14_ClearWitness ==
    /\ lastOp.op = "clear-block"
    /\ lastOp.io.fw = "clear-fail"
    /\ lastOp.io.dns = "flush-fail"
    /\ response = [success |-> TRUE]
    /\ currentBlock = Null

\* C15: a start-block or clear-block whose hosts write fails answers
\* {success:false, error}, makes no firewall call and no state save, and leaves
\* the BlockState, the state file, the hosts content and the timer as they
\* were: a failed start-block leaves the prior block in force, a failed
\* clear-block leaves the block active.
C15_FailedWriteChangesNothing ==
    [][(GatedStep /\ lastOp'.io.wr = "fail") =>
         /\ response'.success = FALSE
         /\ "error" \in DOMAIN response'
         /\ lastOp'.io.fw = "none"
         /\ lastOp'.io.save = "none"
         /\ UNCHANGED <<currentBlock, stateFile, hosts, checkupInterval>>]_vars

\* a start-block failed on the hosts write while another block was in force
C15_Witness ==
    /\ lastOp.op = "start-block"
    /\ lastOp.branch = "write-failed"
    /\ response = [success |-> FALSE, error |-> <<"Failed to write hosts file">>]
    /\ currentBlock # Null
    /\ currentBlock.domains # lastOp.req.domains
    /\ HasSectionFor(hosts, currentBlock.domains)
    /\ stateFile = StateDocument(currentBlock)

C15_ClearWitness ==
    /\ lastOp.op = "clear-block"
    /\ lastOp.branch = "write-failed"
    /\ response = [success |-> FALSE, error |-> <<"Failed to clear hosts file">>]
    /\ currentBlock # Null
    /\ HasSectionFor(hosts, currentBlock.domains)

(***************************************************************************)
(* The end time of an accepted block.                                      *)
(***************************************************************************)
\* C19: a start-block that is accepted has an endTime greater than the time
\* of its acceptance, and the document it persists holds no currentBlock whose
\* endTime is at or before the time of the write.
C19_AcceptedEndTimeInFuture ==
    (lastOp.op = "start-block" /\ response = [success |-> TRUE]) =>
        /\ lastOp.req.endTime > now
        /\ (lastOp.io.save = "ok" /\ HasPersistedBlock) => stateFile.currentBlock.endTime > now

(***************************************************************************)
(* The hosts editor.                                                       *)
(***************************************************************************)
HasNoMarker(content) ==
    /\ ~Includes(content, BLOCK_MARKER_START)
    /\ ~Includes(content, BLOCK_MARKER_END)

\* the last block section of a text: from its last start marker to its last
\* end marker
LastIndexOf(s, t) ==
    IF \E i \in 1..Len(s) : s[i] = t
    THEN CHOOSE i \in 1..Len(s) : s[i] = t /\ \A j \in (i + 1)..Len(s) : s[j] # t
    ELSE 0

LastSection(content) ==
    SubSeq(content, LastIndexOf(content, BLOCK_MARKER_START),
           LastIndexOf(content, BLOCK_MARKER_END))

\* C16: inserting the domain list that has just been inserted leaves the
\* hosts content as it is, whatever the content was before the first insert.
C16_InsertIdempotent ==
    lastOp.op = "insert" => addBlockToHosts(hosts, lastOp.req.domains) = hosts

\* C17: when a domain list has been inserted into a content with neither
\* marker, removing the block gives that content with its trailing whitespace
\* trimmed: every line of it, and no generated line.
C17_RoundTrip ==
    (lastOp.op = "insert" /\ HasNoMarker(lastOp.pre.content)) =>
        /\ removeBlockFromHosts(hosts) = TrimEnd(lastOp.pre.content)
        /\ NoSection(removeBlockFromHosts(hosts))

\* two domains were inserted into a content that ends in whitespace
C17_Witness ==
    /\ lastOp.op = "insert"
    /\ lastOp.pre.content = <<U1, NL, SP>>
    /\ lastOp.req.domains = <<D2, D1>>
    /\ containsBlock(hosts)
    /\ removeBlockFromHosts(hosts) = <<U1>>

BlockOf(line) ==
    LET command == JSONParse(line).value
    IN [domains |-> command.domains,
        endTime |-> command.endTime,
        blocklistId |-> Field(command, "blocklistId")]

\* BlockState, state file and hosts content are those the start-block line
\* leaves, each of them whole
TripleOfStart(line) ==
    /\ currentBlock = BlockOf(line)
    /\ stateFile = StateDocument(BlockOf(line))
    /\ HasSectionFor(hosts, BlockOf(line).domains)

\* ... those a clear, an expiry or a start of the daemon without a block leaves
TripleOfNoBlock ==
    /\ currentBlock = Null
    /\ stateFile \in {Missing, NullDocument}
    /\ NoSection(hosts)

\* the request lines the last data event completed that change the state
EffectiveLines ==
    LET all == Lines(lastOp.pre.buffer \o lastOp.req.data)
    IN SelectSeq(SubSeq(all, 1, Len(all) - 1),
                 LAMBDA l : l \in {StartLineA, StartLineBA, ClearLine})

\* C20: while the daemon runs and its system calls succeed, with commands
\* arriving on two connections between the ticks of the timer, BlockState,
\* state file and hosts section are always those one start-block request left
\* (all its fields, none of another request) or those a clear or an expiry
\* left; and after a data event they are those of the last start-block or
\* clear-block line the event completed.
C20_WholeOperation ==
    daemon = "running" =>
        /\ TripleOfNoBlock \/ TripleOfStart(StartLineA) \/ TripleOfStart(StartLineBA)
        /\ (lastOp.op = "data" /\ EffectiveLines # <<>>) =>
              LET last == EffectiveLines[Len(EffectiveLines)]
              IN IF last = ClearLine THEN TripleOfNoBlock ELSE TripleOfStart(last)

\* a start-block arrived on the second connection in the second in which the
\* block started on the first one expires, before the tick that would clear it
C20_Witness ==
    /\ lastOp.op = "data"
    /\ lastOp.req.conn = "c2"
    /\ sockets["c1"].open
    /\ lastOp.req.data = Line(StartLineA)
    /\ lastOp.trace[1].before.currentBlock = BlockOf(StartLineBA)
    /\ now = BlockOf(StartLineBA).endTime
    /\ TripleOfStart(StartLineA)

\* two start-block lines arrived in one chunk and the second one won
C20_TwoStartsInOneChunk ==
    /\ lastOp.op = "data"
    /\ lastOp.req.data = Line(StartLineBA) \o Line(StartLineA)
    /\ TripleOfStart(StartLineA)

(***************************************************************************)
(* The lines of the hosts file the daemon does not own.                    *)
(***************************************************************************)
\* a line addBlockToHosts generates
IsGeneratedLine(l) ==
    \/ l \in {<<BLOCK_MARKER_START>>, <<BLOCK_MARKER_END>>, <<MANAGED_LINE>>}
    \/ l # <<>> /\ Head(l) \in {IPV4, IPV6}

\* the lines of a text that are neither blank nor generated, in order
UserLines(content) ==
    SelectSeq(Lines(content), LAMBDA l : ~IsBlank(l) /\ ~IsGeneratedLine(l))

\* C21: after every hosts write of a start-block, a clear-block, an expiry or
\* a repair, the hosts file holds every line it held at the start that is not
\* of the block section, also when the read of that operation failed.
C21_ForeignLinesPreserved ==
    lastOp.io.wr = "ok" =>
        \E h \in InitialHosts : UserLines(hosts) = UserLines(h)

\* the same, for the steps whose read of the hosts file did not fail
C21_PreservedWhenRead ==
    [][(lastOp'.io.wr = "ok" /\ lastOp'.io.rd = "ok") =>
          UserLines(hosts') = UserLines(hosts)]_vars

(***************************************************************************)
(* The state file at startup and under a kill.                             *)
(***************************************************************************)
NoUsableStateFile == stateFile \in {Missing, Corrupt}

\* C22: a start that finds no state file, or one that cannot be read or
\* parsed, ends with the daemon running, the BlockState null and the timer
\* not set; the daemon stays so while no block is started, and a get-status
\* it handles then answers {active:false}.
C22_StartsWithoutState ==
    /\ (lastOp.op = "main" /\ NoUsableStateFile) =>
          daemon = "running" /\ currentBlock = Null /\ ~checkupInterval
    /\ (daemon = "running" /\ NoUsableStateFile) =>
          currentBlock = Null /\ ~checkupInterval
    /\ (lastOp.op = "get-status" /\ NoUsableStateFile) =>
          response = [active |-> FALSE]

\* the daemon was started on a state file that does not parse and answered a
\* get-status
C22_Witness ==
    /\ daemon = "running"
    /\ stateFile = Corrupt
    /\ lastOp.op = "get-status"
    /\ response = [active |-> FALSE]
    /\ ~checkupInterval

\* the daemon was started on a file that a kill inside saveState had torn
C22_StartedOnTornFile ==
    /\ lastOp.op = "main"
    /\ stateFile = Corrupt
    /\ now > 0
    /\ hosts \notin InitialHosts
    /\ currentBlock = Null

\* C29: a process killed inside saveState leaves at the state file's path the
\* complete document that was there before or the complete new one.
C29_SaveAtomic ==
    lastOp.op = "crash" =>
        stateFile \in {lastOp.pre.stateFile, StateDocument(currentBlock)}

(***************************************************************************)
(* Removal from any hosts content.                                         *)
(***************************************************************************)
\* C23: whatever the hosts content was, what removeBlockFromHosts returns for
\* it holds no start marker and no redirect line.
C23_RemoveClears ==
    lastOp.op = "remove" =>
        /\ ~containsBlock(hosts)
        /\ RedirectLinesOf(hosts) = <<>>

(***************************************************************************)
(* Two blocklists of the application.  The application sends, for each     *)
(* block it starts, a start-block with the websites of that blocklist      *)
(* alone, and a clear-block when the user overrides a block.               *)
(***************************************************************************)
\* the four redirect lines of every domain of the list are in the text
EnforcesAll(content, domains) ==
    \A i \in 1..Len(ExpectedRedirects(domains)) :
        \E j \in 1..Len(RedirectLinesOf(content)) :
            RedirectLinesOf(content)[j] = ExpectedRedirects(domains)[i]

\* C24: when a start-block is accepted while the block started before it has
\* not reached its endTime, the hosts file enforces the domains of both.
C24_BothBlocksEnforced ==
    (/\ lastOp.op = "start-block"
     /\ lastOp.branch = "started"
     /\ lastOp.pre # Null
     /\ lastOp.pre.endTime > now) =>
        /\ EnforcesAll(hosts, lastOp.req.domains)
        /\ EnforcesAll(hosts, lastOp.pre.domains)

(***************************************************************************)
(* Ticks after an edit of the block section.                               *)
(***************************************************************************)
\* the last step was a tick that ran the integrity check
IntegrityTick == lastOp.op = "tick" /\ lastOp.branch \in {"intact", "repair"}

\* C25: after a tick that ran for a non-null, unexpired BlockState the hosts
\* file holds, between the markers, the four redirect lines of every domain of
\* the BlockState, whatever edit of the section preceded the tick.
C25_AnyAlterationRepaired ==
    IntegrityTick => HasSectionFor(hosts, currentBlock.domains)

\* the step taken is a tick that runs for a non-null, unexpired BlockState
CheckingTick ==
    /\ TickStep
    /\ currentBlock # Null
    /\ now < currentBlock.endTime

\* C28: a tick that runs for a non-null, unexpired BlockState calls neither
\* the firewall nor saveState and leaves the BlockState and the state file as
\* they were; when the hosts file holds the start marker it writes nothing and
\* the hosts content stays as it was, otherwise it writes the hosts file.
C28_RepairWritesHostsOnly ==
    [][CheckingTick =>
         /\ currentBlock' = currentBlock
         /\ stateFile' = stateFile
         /\ lastOp'.io.fw = "none"
         /\ lastOp'.io.save = "none"
         /\ IF containsBlock(hosts)
            THEN hosts' = hosts /\ lastOp'.io.wr = "none"
            ELSE lastOp'.io.wr = "ok" /\ hosts' # hosts]_vars

\* a tick rebuilt the section of a block restored from the state file
C28_Witness ==
    /\ lastOp.op = "tick"
    /\ lastOp.branch = "repair"
    /\ lastOp.io = [NoIO EXCEPT !.rd = "ok", !.wr = "ok", !.dns = "flush-ok"]
    /\ currentBlock # Null
    /\ stateFile = StateDocument(currentBlock)
    /\ HasSectionFor(hosts, currentBlock.domains)

\* a tick found the start marker of a section without its redirect lines and
\* wrote nothing
C28_IntactWitness ==
    /\ lastOp.op = "tick"
    /\ lastOp.branch = "intact"
    /\ lastOp.io.wr = "none"
    /\ containsBlock(hosts)
    /\ RedirectLinesOf(hosts) = <<>>

(***************************************************************************)
(* The checkup timer.                                                      *)
(***************************************************************************)
\* C26: while the daemon runs, a non-null BlockState has the timer set, and
\* the process holds at most one interval: one when checkupInterval is set,
\* none otherwise.
C26_OneTimerForBlock ==
    daemon = "running" =>
        /\ currentBlock # Null => checkupInterval
        /\ intervals <= 1
        /\ checkupInterval <=> intervals = 1

\* a start-block was accepted while the timer of the block before it was set
C26_Witness ==
    /\ lastOp.op = "start-block"
    /\ lastOp.branch = "started"
    /\ lastOp.pre # Null
    /\ checkupInterval
    /\ intervals = 1

\* a block was restored at startup and its timer set
C26_RestoredWitness ==
    /\ lastOp.op = "main"
    /\ lastOp.branch = "restored"
    /\ intervals = 1

\* C27: a tick that finds the BlockState null stops the timer; the timer of a
\* running daemon is set again only by an accepted start-block; and, the
\* interval firing for as long as it is set, a null BlockState with the timer
\* set leads to the timer stopped or to a new BlockState.
C27_NoIdleWakeups ==
    /\ [][/\ (TickStep /\ currentBlock = Null) => ~checkupInterval'
          /\ (daemon = "running" /\ daemon' = "running"
                /\ ~checkupInterval /\ checkupInterval') =>
                (lastOp'.op = "start-block" /\ lastOp'.branch = "started")]_vars
    /\ (daemon = "running" /\ currentBlock = Null /\ checkupInterval)
          ~> (~checkupInterval \/ currentBlock # Null)

\* the tick after an expiry found no block and stopped the timer
C27_Witness ==
    /\ daemon = "running"
    /\ lastOp.op = "tick"
    /\ lastOp.branch = "stop"
    /\ currentBlock = Null
    /\ stateFile = NullDocument
    /\ ~checkupInterval
    /\ intervals = 0

(***************************************************************************)
(* The state file after a mutation.                                        *)
(***************************************************************************)
\* C30: after an accepted start-block, a clear-block that cleared a block and
\* an expiry, the document in the state file is the one of the in-memory
\* BlockState, also when the write of the state file failed.
C30_DurableTracksMemory ==
    lastOp.branch \in {"started", "cleared", "expired"} =>
        stateFile = StateDocument(currentBlock)

(***************************************************************************)
(* C31: in a running daemon currentBlock goes from null to a block only in *)
(* a start-block answered {success:true}, and the block is the one of the  *)
(* request, whole; a block is replaced by another only in such a           *)
(* start-block; a block goes to null only in a clear-block answered with   *)
(* success or in a firing of the interval at a time >= its endTime.  No    *)
(* other step (ping, get-status, unknown command, failed command, repair,  *)
(* external deletion, clock) changes currentBlock.                         *)
(***************************************************************************)
BlockOfRequest(req) ==
    [domains |-> req.domains, endTime |-> req.endTime,
     blocklistId |-> Field(req, "blocklistId")]

SuccessfulStart ==
    /\ lastOp'.op = "start-block"
    /\ response' = [success |-> TRUE]
    /\ {"domains", "endTime"} \subseteq DOMAIN lastOp'.req
    /\ currentBlock' = BlockOfRequest(lastOp'.req)

SuccessfulClear ==
    /\ lastOp'.op = "clear-block"
    /\ response' = [success |-> TRUE]
    /\ currentBlock' = Null

ExpiryTick ==
    /\ lastOp'.op = "tick"
    /\ checkupInterval
    /\ now >= currentBlock.endTime
    /\ currentBlock' = Null

C31_OnlyLifecycleTransitions ==
    [][(daemon = "running" /\ daemon' = "running" /\ currentBlock' # currentBlock)
          => IF currentBlock' # Null
             THEN SuccessfulStart
             ELSE SuccessfulClear \/ ExpiryTick]_vars

\* a start-block has replaced a block by a different one
C31_Witness ==
    /\ daemon = "running"
    /\ lastOp.op = "start-block"
    /\ response = [success |-> TRUE]
    /\ lastOp.pre # Null
    /\ lastOp.pre # currentBlock
    /\ currentBlock = BlockOfRequest(lastOp.req)

\* a failed clear-block and a repair have left the block as it was
C31_FailedClearWitness ==
    /\ daemon = "running"
    /\ lastOp.op = "clear-block"
    /\ response.success = FALSE
    /\ currentBlock # Null


\* C31 on the channel: with clients connecting, closing and sending lines of
\* any kind, currentBlock changes only in a data event that completes a
\* start-block or clear-block line, to what the last such line asks for, or
\* in a firing of the interval at a time >= endTime
C31_ChannelEvents ==
    [][(daemon = "running" /\ daemon' = "running" /\ currentBlock' # currentBlock)
          => \/ ExpiryTick
             \/ \E c \in Conns :
                   /\ DataStep(c)
                   /\ LET eff == SelectSeq(RequestLines(c),
                                           LAMBDA l : l \in {StartLineA, StartLineBA, ClearLine})
                      IN /\ eff # <<>>
                         /\ currentBlock' = IF eff[Len(eff)] = ClearLine
                                            THEN Null
                                            ELSE BlockOf(eff[Len(eff)])]_vars


(***************************************************************************)
(* C32: the hosts file starts without markers; whatever start-blocks,      *)
(* clear-blocks, expiries and repairs run, with any of their system calls  *)
(* failing, and whenever an external writer deletes the whole section, the *)
(* content holds at most one start marker and at most one end marker, and  *)
(* a marker it holds has its partner, the start marker before the end      *)
(* marker.                                                                 *)
(***************************************************************************)
C32_SingleSection ==
    /\ Count(hosts, BLOCK_MARKER_START) <= 1
    /\ Count(hosts, BLOCK_MARKER_END) <= 1
    /\ Count(hosts, BLOCK_MARKER_START) = Count(hosts, BLOCK_MARKER_END)
    /\ Includes(hosts, BLOCK_MARKER_START)
          => IndexOf(hosts, BLOCK_MARKER_START) < IndexOf(hosts, BLOCK_MARKER_END)

\* a start-block has replaced a block whose section was in the file since
\* the start-block before it
C32_Witness ==
    /\ lastOp.op = "start-block"
    /\ lastOp.branch = "started"
    /\ lastOp.pre # Null
    /\ lastOp.pre.domains # currentBlock.domains
    /\ Count(hosts, BLOCK_MARKER_START) = 1
    /\ HasSectionFor(hosts, currentBlock.domains)

\* a tick has written the section again after an external deletion
C32_RepairWitness ==
    /\ lastOp.op = "tick"
    /\ lastOp.branch = "repair"
    /\ lastOp.io.wr = "ok"
    /\ Count(hosts, BLOCK_MARKER_START) = 1


(***************************************************************************)
(* C33: a line that is not JSON, the line null, and a start-block line     *)
(* without domains, without endTime or with an endTime that is not a       *)
(* number is answered with one write of {success:false, error}; the daemon *)
(* keeps running, the connection stays open, and currentBlock, the state   *)
(* file and the hosts file are as before.                                  *)
(***************************************************************************)
\* the lines of RequestChunks with a missing member, in the order above
IncompleteLines == {StartLineNoDomains, StartLineNoEndTime}

\* ... with an endTime of another type than number
WronglyTypedLines == {StartLineEndNull, StartLineEndTrue}

\* ... that are not a JSON object
NotAnObject == {TruncatedLine, TrailingCommaLine, NullLine}

\* the data event on c answers each of its lines with a structured error
\* and changes nothing
RefusedOn(c) ==
    /\ Len(response'.writes) = Len(RequestLines(c))
    /\ \A i \in 1..Len(response'.writes) :
          LET w == response'.writes[i]
          IN /\ Len(w) = 2
             /\ w[2] = NL
             /\ DOMAIN w[1] = {"success", "error"}
             /\ w[1].success = FALSE
             /\ w[1].error # <<>>
    /\ daemon' = "running"
    /\ sockets'[c].open
    /\ currentBlock' = currentBlock
    /\ stateFile' = stateFile
    /\ hosts' = hosts

RefusesAll(lines) ==
    \A c \in Conns :
       (/\ DataStep(c)
        /\ RequestLines(c) # <<>>
        /\ \A i \in 1..Len(RequestLines(c)) : RequestLines(c)[i] \in lines)
       => RefusedOn(c)

C33_BadRequestsRefused ==
    [][RefusesAll(NotAnObject \cup IncompleteLines \cup WronglyTypedLines)]_vars

\* what holds: the refusal of every such line but the wrongly typed ones
C33_RefusedUnlessEndTimeConverts ==
    [][RefusesAll(NotAnObject \cup IncompleteLines)]_vars

\* a start-block without endTime was refused while a block was active
C33_RefusedWitness ==
    /\ lastOp.op = "data"
    /\ lastOp.req.data = Line(StartLineNoEndTime)
    /\ currentBlock = BlockOf(StartLineA)
    /\ response.writes = <<InvalidJSONWrite>>


(***************************************************************************)
(* C34: a call of send settles once.  Whatever the order of the socket's   *)
(* events and the timers, resolve and reject are called at most one time   *)
(* together and the first settlement stays; once the response timeout has  *)
(* fired the call is settled; a timer that fires on an unsettled call      *)
(* rejects it; the command is written at most once; and every call is      *)
(* settled in the end.                                                     *)
(***************************************************************************)
Settled == Len(client.settlements) = 1

TimeoutMessages ==
    {"Connection timeout - helper daemon may not be running", "Response timeout"}

C34_SettlesOnce ==
    /\ [](Len(client.settlements) <= 1)
    /\ [](Len(client.written) <= 1)
    /\ [](client.responseTimer = "fired" => Settled)
    /\ [](client.connectionTimer = "fired" =>
             client.settlements =
                <<[kind |-> "reject",
                   error |-> "Connection timeout - helper daemon may not be running"]>>)
    /\ [][(client.responseTimer = "set" /\ client'.responseTimer = "fired" /\ ~Settled)
             => client'.settlements = <<[kind |-> "reject", error |-> "Response timeout"]>>]_vars
    /\ [][Settled => client'.settlements = client.settlements]_vars
    /\ (client.call # "none") ~> Settled

\* the response timeout has rejected a call that had connected and received
\* text without a newline, and the socket has closed after it
C34_Witness ==
    /\ client.connected
    /\ client.responseBuffer # <<>>
    /\ client.responseTimer = "fired"
    /\ client.closed
    /\ client.settlements = <<[kind |-> "reject", error |-> "Response timeout"]>>
    /\ Len(client.written) = 1

\* a response has arrived after the connection timeout rejected the call
C34_LateResponseWitness ==
    /\ client.connectionTimer = "fired"
    /\ Includes(client.responseBuffer, NL)
    /\ client.settlements[1].kind = "reject"

(***************************************************************************)
(* C35: isRunning returns once its send is settled, and it returns; it     *)
(* returns true when the first line of the response to its ping is an      *)
(* object whose success is true and no failure came before that line, and  *)
(* false for every rejection of the call (no daemon, refused connection,   *)
(* either timeout, a close before the response, a line that is not JSON)   *)
(* and for every other response.                                           *)
(***************************************************************************)
FirstResponseLine ==
    SubSeq(client.responseBuffer, 1, IndexOf(client.responseBuffer, NL) - 1)

Failures ==
    TimeoutMessages
    \cup {"Helper daemon not running. Please install the helper first.", "ECONNRESET",
          "Connection closed unexpectedly", "Invalid response from helper"}

C35_IsRunning ==
    client.call = "isRunning" =>
        /\ client.command = [action |-> "ping"]
        /\ client.returned \in {"pending", "true", "false"}
        /\ client.returned = "pending" <=> client.settlements = <<>>
        /\ client.returned = "true" <=>
              /\ client.settlements # <<>>
              /\ client.settlements[1].kind = "resolve"
              /\ Includes(client.responseBuffer, NL)
              /\ FirstResponseLine = <<R_PONG>>
        /\ (client.settlements # <<>> /\ client.settlements[1].kind = "reject") =>
              /\ client.settlements[1].error \in Failures
              /\ client.returned = "false"

\* isRunning has returned false for a response that is not JSON
C35_Witness ==
    /\ client.call = "isRunning"
    /\ client.settlements = <<[kind |-> "reject", error |-> "Invalid response from helper"]>>
    /\ client.returned = "false"

\* ... true for the pong
C35_TrueWitness ==
    /\ client.call = "isRunning"
    /\ client.returned = "true"

\* ... false for the response null, whose success cannot be read
C35_NullWitness ==
    /\ client.call = "isRunning"
    /\ client.settlements = <<[kind |-> "resolve", value |-> Null]>>
    /\ client.returned = "false"


(***************************************************************************)
(* C36: with the helper started a second time while a helper runs, there   *)
(* is no state in which both processes run with their checkup intervals    *)
(* set and hold different blocks.                                          *)
(***************************************************************************)
Enforcing(i) ==
    /\ instances[i].daemon = "running"
    /\ instances[i].checkupInterval
    /\ instances[i].currentBlock # Null

C36_OneEnforcer ==
    (Enforcing(1) /\ Enforcing(2)) => instances[1].currentBlock = instances[2].currentBlock

\* what follows: the process that holds the older block has removed the
\* section and the document of the block the other process holds
C36_OlderBlockExpiresNewer ==
    ~(/\ lastOp.op = "tick"
      /\ lastOp.branch = "expired"
      /\ \E i \in Instances : Enforcing(i) /\ now < instances[i].currentBlock.endTime
      /\ NoSection(hosts)
      /\ stateFile = NullDocument)


(***************************************************************************)
(* C37: while a block that has run out is held (now >= endTime), every     *)
(* firing of the interval tries to write the hosts file without the        *)
(* section; a firing whose write fails leaves the block, the hosts file    *)
(* and the timer as they were, one whose write succeeds leaves no block    *)
(* and no section; a get-status in between answers active: true with       *)
(* remainingMs 0.  With writes that succeed in the end the daemon gets to  *)
(* no block and no section, unless it is stopped or a start-block brings a *)
(* block that has not run out.                                             *)
(***************************************************************************)
HoldsExpired ==
    /\ daemon = "running"
    /\ currentBlock # Null
    /\ now >= currentBlock.endTime

ExpiryAttempt ==
    (HoldsExpired /\ TickStep) =>
        /\ lastOp'.io.wr \in {"ok", "fail"}
        /\ lastOp'.io.wr = "fail" =>
              /\ currentBlock' = currentBlock
              /\ hosts' = hosts
              /\ checkupInterval'
              /\ intervals' = 1
              /\ daemon' = "running"
        /\ lastOp'.io.wr = "ok" =>
              /\ currentBlock' = Null
              /\ NoSection(hosts')

StatusWhileExpired ==
    (HoldsExpired /\ CommandStep("get-status")) =>
        /\ response'.active = TRUE
        /\ response'.remainingMs = 0
        /\ response'.domains = currentBlock.domains

C37_ExpiryRetried ==
    /\ [][ExpiryAttempt /\ StatusWhileExpired]_vars
    /\ [](HoldsExpired => checkupInterval)
    /\ HoldsExpired ~> \/ daemon = "stopped"
                       \/ currentBlock = Null /\ NoSection(hosts)
                       \/ currentBlock # Null /\ now < currentBlock.endTime

\* a firing of the interval found the block run out and its write failed
C37_Witness ==
    /\ lastOp.op = "tick"
    /\ lastOp.io.wr = "fail"
    /\ HoldsExpired
    /\ checkupInterval
    /\ HasSectionFor(hosts, currentBlock.domains)

\* get-status after such a firing
C37_StatusWitness ==
    /\ lastOp.op = "get-status"
    /\ HoldsExpired
    /\ now > currentBlock.endTime
    /\ response.remainingMs = 0


(***************************************************************************)
(* C38: the process is killed inside a start-block or a clear-block and    *)
(* the daemon is started again.  If the startup restores no block (no      *)
(* timer is set, nothing changes after it), the hosts file has no section; *)
(* if it restores a block, then after the first firing of the interval the *)
(* hosts file has the section of the block the daemon holds, or no block   *)
(* and no section.                                                         *)
(***************************************************************************)
RestartAfterCrash == lastOp.op = "crash" /\ MainStep

FirstTickAfterStartup == lastOp.op = "main" /\ TickStep

SectionIffBlock ==
    IF currentBlock' = Null
    THEN NoSection(hosts')
    ELSE HasSectionFor(hosts', currentBlock'.domains)

C38_CrashConsistent ==
    [][/\ (RestartAfterCrash /\ currentBlock' = Null) => NoSection(hosts')
       /\ FirstTickAfterStartup => SectionIffBlock]_vars

\* what holds: a start after a kill inside a clear-block that restores no
\* block finds no section, and one that restores the block has its section
\* back after the first firing
C38_ClearCrashConsistent ==
    [][/\ (RestartAfterCrash /\ lastOp.req.action = "clear-block" /\ currentBlock' = Null)
             => NoSection(hosts')
       /\ (FirstTickAfterStartup /\ ~Includes(hosts, BLOCK_MARKER_START))
             => SectionIffBlock]_vars


(***************************************************************************)
(* C39: however the text of a stream is cut into data events, the writes   *)
(* made once a part of it has arrived, the text kept in the buffer and the *)
(* daemon's state are those of one data event carrying that part whole;    *)
(* there is one write for each non-blank line of the part that is ended by *)
(* a newline, so the text after the last newline has not been handled.     *)
(***************************************************************************)
\* the daemon when the stream begins: started without a state file
StartSys ==
    [hosts |-> <<U1, NL, U2, NL>>, currentBlock |-> Null, stateFile |-> Missing,
     checkupInterval |-> FALSE, intervals |-> 0]

CompleteLines(text) ==
    LET all == Lines(text) IN SelectSeq(SubSeq(all, 1, Len(all) - 1), LAMBDA l : ~IsBlank(l))

C39_FramingIndependent ==
    (daemon = "running" /\ sockets[StreamConn].open) =>
        LET whole == onData(<<>>, framing.fed, StartSys, 0, NoFaults)
            requests == CompleteLines(framing.fed)
        IN /\ framing.out = whole.out
           /\ sockets[StreamConn].buffer = whole.buffer
           /\ Sys = whole.s
           /\ Len(framing.out) = Len(requests)
           /\ \A i \in 1..Len(requests) : Answers(framing.out[i], requests[i])

\* a stream has arrived in pieces, the last of which ended a request that
\* had begun in an earlier piece and held the request after it too
C39_Witness ==
    /\ lastOp.op = "data"
    /\ framing.rest = <<>>
    /\ lastOp.pre.buffer # <<>>
    /\ Len(response.writes) = 2
    /\ Len(framing.out) = 4
    /\ framing.out[4] = PongWrite

\* the end of a stream is the beginning of a request, which is not answered
C39_PartialWitness ==
    /\ lastOp.op = "data"
    /\ framing.rest = <<>>
    /\ sockets[StreamConn].buffer = <<LBRACE, M_CLEAR>>
    /\ Len(framing.out) = 3
    /\ currentBlock = BlockOf(StartLineA)

====
